---- MODULE Spec2Model ----
(***************************************************************************)
(* Cyborg miner control plane.                                             *)
(*                                                                         *)
(* Part I   the transaction queue (miner/src/utils/tx_queue.rs) and the    *)
(*          executor wrappers of miner/src/utils/tx_builder.rs that are    *)
(*          enqueued on it.                                                *)
(* Part II  the event processor (parachain_interactor/event_processor.rs)  *)
(*          and the inference supervisor (parent_runtime/inference.rs).    *)
(* Part III one inference server, its connections and its shutdown         *)
(*          (parent_runtime/inference.rs).                                 *)
(* Part IV  start_miner (parachain_interactor/registration.rs): the        *)
(*          registration at start and the block loop.                      *)
(* Part V   the resumable downloaders (parent_runtime/storage_interactor/  *)
(*          huggingface.rs and onnx.rs).                                   *)
(* Part VI  encrypt and decrypt (crypto/aes.rs).                           *)
(* Part VII NeuroZKEngine::setup (neuro-zk-runtime/src/lib.rs).            *)
(* Part VIII TritonClient::run (open-inference-runtime/src/client.rs).     *)
(* Part IX  MinerBuilder (miner/src/builder.rs).                           *)
(***************************************************************************)
EXTENDS Integers, Sequences, FiniteSets, TLC

\* ------------------------------------------------------------------ bounds

\* Number of enqueue() calls made during a run (each by its own task).
\* Calls are numbered in the order in which they take the queue's lock for
\* push_back; workers are numbered in the order in which they are spawned.
NumCalls == 2

\* Number of backoff delays remembered per transaction (history only).
SleepLog == 2

\* Number of chain events the event processor is handed during a run.
MaxEvents == 2

\* Number of TaskScheduled events for this miner it accepts during a run
\* (each starts one background task, which may spawn one server).
NumSlots == 2

\* Task ids that occur in events.
NumTasks == 2

\* Connections the inference servers accept during a run.
NumConns == 1

\* Largest size of the remote file and of the local file a downloader is
\* run on, in blocks of half a chunk.
MaxBlocks == 6

\* Largest value of a byte of a key, a nonce or a plaintext.
MaxByte == 1

\* Largest length of a plaintext handed to encrypt.
MaxData == 2

\* Largest number of entries of a model archive.
MaxEntries == 2

\* Requests a client sends on one connection.
MaxRequests == 2

\* ------------------------------------------------------- program constants

\* aes.rs:17, 42: `key: &[u8; 32]`
KEY_LEN == 32

\* aes.rs:22, 43, 47
NONCE_LEN == 12

\* tx_queue.rs:16
MAX_RETRIES == 500

\* tx_queue.rs:111  `tx.retry_count().min(10)`
BACKOFF_CAP_EXP == 10

\* tx_queue.rs:111  `1000 * ...` milliseconds
BACKOFF_BASE_MS == 1000

Calls == 1..NumCalls

\* start_processing spawns at most one worker per enqueue() call.
Workers == 1..NumCalls

VARIABLES
    queue,        \* inner: VecDeque<Transaction>, front first
    processing,   \* processing: AtomicBool
    cpc,          \* cpc[c]: position of enqueue call c
    chan,         \* chan[c]: value held by the oneshot channel of call c
    rxAlive,      \* rxAlive[c]: the oneshot receiver of call c is not dropped
    observed,     \* observed[c]: what the caller read from its receiver
    wpc,          \* wpc[w]: position of the w-th worker spawned
    held,         \* held[w]: the transaction worker w popped (NoTx if none)
    wres,         \* wres[w]: result of the attempt worker w just awaited
    delay,        \* delay[w]: milliseconds worker w is sleeping for (0: not)
    finished      \* history: finished[c]: final outcome of call c's executor

qvars == <<queue, processing, cpc, chan, rxAlive, observed, wpc, held, wres,
           delay, finished>>

Slots == 1..NumSlots
TaskIds == 1..NumTasks
Conns == 1..NumConns

VARIABLES
    current_task,    \* miner.current_task: a task id, 0 for None
    evn,             \* events handed to process_event so far
    epc,             \* position of process_event: "idle" between events
    ecall,           \* the enqueue() call process_event is waiting on
    ekind,           \* the chain call of that enqueue()
    last,            \* history: the event process_event was last called
                     \* with, whether it passed the handler's guard and
                     \* whether process_event returned an Err from it
    owner_file,      \* task-owner file: the task it was written for, 0 if absent
    task_dir,        \* the task directory exists
    bpc,             \* bpc[s]: position of the s-th background task
    btask,           \* btask[s]: the task it was spawned for
    btype,           \* btype[s]: task_type of the CurrentTask it was given
    dres,            \* dres[s]: what its download_model_archive returned,
                     \* "none" before the call and after the `if let`
    status,          \* status[s]: EngineStatus in the watch channel
    stpc,            \* stpc[s]: position of the setup task
    spc,             \* spc[s]: position of the server task (`handle`)
    shutdown_tx,     \* shutdown_tx[s]: the shutdown watch sender
    done,            \* done[s]: the shutdown_done one-shot channel
    rd,              \* rd[s]: the status the latest read of status[s] gave
    current_server,  \* CURRENT_SERVER: a slot, 0 for None
    port             \* slot whose listener holds the TCP port, 0 if free

VARIABLES
    kpc,             \* position of start_miner
    identity_file    \* the identity file: "absent" (missing or unreadable)
                     \* or "valid"

mvars == <<kpc, identity_file>>

VARIABLES
    dkind,           \* the downloader called: "hf" or "onnx"
    dlpc,            \* its position
    remote,          \* the remote file, a sequence of blocks
    lfile,           \* the local file at save_path, a sequence of blocks
    total_size,      \* total_size, in bytes
    downloaded,      \* downloaded, in bytes
    cursor,          \* position of the open file, in bytes
    gets             \* history: the Range of every GET sent, <<a, b>>

dvars == <<dkind, dlpc, remote, lfile, total_size, downloaded, cursor, gets>>

VARIABLES
    apc,             \* position of the crypto round trip
    akey,            \* the key
    amsg,            \* the plaintext handed to encrypt
    asealed,         \* what encrypt returned
    ainput,          \* the data handed to decrypt
    aopened,         \* what decrypt returned
    aresealed        \* what encrypt returned for the plaintext of aopened

avars == <<apc, akey, amsg, asealed, ainput, aopened, aresealed>>

VARIABLES
    nzk,             \* a call of NeuroZKEngine::setup: its position `pc`, the
                     \* files of the task directory `dir`, the model
                     \* archive `archive`, its entries not yet read `rest`,
                     \* and, as history, whether the archive was opened
                     \* and the files File::create was called for
    triton,          \* a call of TritonClient::run: its position `pc`, the
                     \* requests taken and the replies sent
    builder          \* a MinerBuilder: its fields

rvars == <<nzk, triton, builder>>

\* What process_event never writes: start_miner's position, the identity
\* file, the downloaders, the crypto functions, the engine runtimes and the
\* builder.
cvars == <<mvars, dvars, avars, rvars>>

evars == <<current_task, evn, epc, ecall, ekind, last, owner_file, cvars>>
bvars == <<bpc, btask, btype, dres>>

svars == <<evars, bvars, task_dir, status, stpc, spc, shutdown_tx, done, rd,
           current_server, port>>

VARIABLES
    shpc,            \* position of a RunningInferenceServer::shutdown call
    shslot,          \* the server it was called on, 0 if none
    shabort,         \* it has called self.handle.abort()
    hpc,             \* hpc[k]: position of the k-th connection's handler
    hslot,           \* hslot[k]: the server that accepted it
    hread,           \* hread[k]: the status its handler read
    hmsgs,           \* hmsgs[k]: status text messages its handler sent
    hran,            \* hran[k]: its handler called the engine's run
    hclient          \* hclient[k]: the client's end of the connection,
                     \* "closed" once its inbound frames have ended

hvars == <<shpc, shslot, shabort, hpc, hslot, hread, hmsgs, hran, hclient>>

ovars == <<svars, hvars>>

vars == <<qvars, svars, hvars>>

NoTx == [id |-> 0]
NoRes == [tag |-> "none"]
NotFinished == "no"

\* ----------------------------------------------------------- tx_builder.rs

\* The four chain calls of tx_builder.rs that are enqueued as executors.
CallKinds == {"register", "submit_proof", "confirm_task_reception",
              "confirm_miner_vacation"}

\* Names of pallet error variants the chain may return in Module(DispatchError).
Variants == {"WorkerExists", "ProofAlreadySubmitted",
             "TaskReceptionAlreadyConfirmed", "InvalidTaskState", "BadOrigin"}

\* What one submission to the chain can end in.
\*   SubmitErr       sign_and_submit_then_watch_default fails (`?`)
\*   Finalized       wait_for_finalized_success is Ok; `event` tells whether
\*                   find_first finds the call's event ("found", "absent") or
\*                   fails to decode ("error")
\*   Module          Err(Runtime(DispatchError::Module(e))): `details` tells
\*                   whether e.details() resolves, `variant` its variant name,
\*                   `lookup` whether get_miner_by_domain succeeds afterwards
\*   RuntimeOther    Err(Runtime(other dispatch error))
\*   Transport       any other subxt::Error
ChainResponses ==
    {[status |-> "SubmitErr"], [status |-> "RuntimeOther"],
     [status |-> "Transport"]}
    \cup {[status |-> "Finalized", event |-> e] :
             e \in {"found", "absent", "error"}}
    \cup {[status |-> "Module", details |-> TRUE, variant |-> v, lookup |-> l] :
             v \in Variants, l \in BOOLEAN}
    \cup {[status |-> "Module", details |-> FALSE, variant |-> "BadOrigin",
           lookup |-> FALSE]}

\* Strings are sequences of tokens, so that formatting is computed.
\* `format!("{:?}", x)` of a fieldless enum variant is the variant's name.
DebugOfVariant(name) == <<name>>

\* `format!("{:?}", s)` of a &str is s inside double quotes.
DebugOfStr(s) == <<"\"">> \o s \o <<"\"">>

\* `returned_error_details.variant.name.to_string()`
VariantNameString(v) == <<v>>

\* The `expected_error` each wrapper hands to check_for_acceptable_error,
\* already formatted with {:?} (tx_builder.rs:68, 133, 176-179, 226).
ExpectedErrorString(kind) ==
    CASE kind = "register" -> DebugOfVariant("WorkerExists")
      [] kind = "submit_proof" -> DebugOfVariant("ProofAlreadySubmitted")
      [] kind = "confirm_task_reception" ->
             DebugOfVariant("TaskReceptionAlreadyConfirmed")
      [] kind = "confirm_miner_vacation" ->
             DebugOfStr(<<"TaskManagement", "::", "InvalidTaskState">>)

\* check_for_acceptable_error(expected, e): TRUE for Ok(()), FALSE for Err.
check_for_acceptable_error(kind, resp) ==
    CASE resp.status = "Module" ->
             /\ resp.details
             /\ VariantNameString(resp.variant) = ExpectedErrorString(kind)
      [] resp.status = "RuntimeOther" -> FALSE
      [] OTHER -> FALSE

\* register(): Ok((owner, id)) or Err.
register(resp) ==
    CASE resp.status = "SubmitErr" -> [tag |-> "Err"]
      [] resp.status = "Finalized" ->
             IF resp.event = "found" THEN [tag |-> "Ok", out |-> "RegistrationInfo"]
             ELSE [tag |-> "Err"]
      [] OTHER ->
             IF ~check_for_acceptable_error("register", resp) THEN [tag |-> "Err"]
             ELSE IF resp.lookup THEN [tag |-> "Ok", out |-> "RegistrationInfo"]
             ELSE [tag |-> "Err"]

\* submit_proof / confirm_task_reception / confirm_miner_vacation share one
\* shape: Ok(()) unless the submission, the event decoding or the
\* acceptable-error check fails.  The enqueued closure maps Ok(()) to
\* Ok(TxOutput::Success) (event_processor.rs:178-184, 214-221).
unit_call(kind, resp) ==
    CASE resp.status = "SubmitErr" -> [tag |-> "Err"]
      [] resp.status = "Finalized" ->
             IF resp.event = "error" THEN [tag |-> "Err"]
             ELSE [tag |-> "Ok", out |-> "Success"]
      [] OTHER ->
             IF check_for_acceptable_error(kind, resp)
             THEN [tag |-> "Ok", out |-> "Success"]
             ELSE [tag |-> "Err"]

submit_proof(resp) == unit_call("submit_proof", resp)

confirm_task_reception(resp) == unit_call("confirm_task_reception", resp)

confirm_miner_vacation(resp) == unit_call("confirm_miner_vacation", resp)

\* The executor closure of a chain call, run once against the chain.
chain_executor(kind, resp) ==
    CASE kind = "register" -> register(resp)
      [] kind = "submit_proof" -> submit_proof(resp)
      [] kind = "confirm_task_reception" -> confirm_task_reception(resp)
      [] kind = "confirm_miner_vacation" -> confirm_miner_vacation(resp)

\* The variant name the chain returned in a Module error whose details
\* resolve ("none" for every other response): history kept with an attempt.
ReturnedVariant(resp) ==
    IF resp.status = "Module" /\ resp.details THEN resp.variant ELSE "none"

\* register() went on to get_miner_by_domain and that query failed
\* (tx_builder.rs:71-79): history kept with an attempt.
LookupFailed(kind, resp) ==
    /\ kind = "register"
    /\ check_for_acceptable_error(kind, resp)
    /\ ~resp.lookup

\* Transaction::execute (tx_queue.rs:34-36): the outcomes one attempt can
\* have.  enqueue() takes any closure (tx_queue.rs:62-66); "opaque" is a
\* closure of which only the result of each call is known.
execute(kind) ==
    IF kind = "opaque"
    THEN {[result |-> [tag |-> "Ok", out |-> "Success"], variant |-> "none",
           lookup_failed |-> FALSE],
          [result |-> [tag |-> "Err"], variant |-> "none",
           lookup_failed |-> FALSE]}
    ELSE {[result |-> chain_executor(kind, resp),
           variant |-> ReturnedVariant(resp),
           lookup_failed |-> LookupFailed(kind, resp)] :
             resp \in ChainResponses}

\* ------------------------------------------------------------- tx_queue.rs

\* 2u64.pow(n)
RECURSIVE Pow2(_)
Pow2(n) == IF n = 0 THEN 1 ELSE 2 * Pow2(n - 1)

Min(a, b) == IF a < b THEN a ELSE b

\* Variant: the delay computed from the count before increment_retry().
delay_ms_before_increment(retry_count) ==
    BACKOFF_BASE_MS * Pow2(Min(retry_count - 1, BACKOFF_CAP_EXP))

\* tx_queue.rs:111, evaluated after increment_retry().
delay_ms(retry_count) ==
    BACKOFF_BASE_MS * Pow2(Min(retry_count, BACKOFF_CAP_EXP))

\* Variant: `<=` in the guard.
retry_allowed_inclusive(tx) == tx.retry_count <= MAX_RETRIES

\* Variant: the guard tests the count the retry would reach.
retry_allowed_early(tx) == tx.retry_count + 1 < MAX_RETRIES

\* Guard of the retry arm, tx_queue.rs:107.
retry_allowed(tx) == tx.retry_count < MAX_RETRIES

\* Variant: the failed transaction goes to the back.
push_front_as_back(q, tx) == Append(q, tx)

\* queue.push_front(tx), tx_queue.rs:116.
push_front(q, tx) == <<tx>> \o q

\* Variant: the previous value of the flag is not looked at.
swap_previous_ignored == FALSE

\* What `processing.swap(true, SeqCst)` returns, tx_queue.rs:82.
swap_previous == processing

\* responder.send(v): the value reaches the channel only while the receiver
\* is alive; the Err returned otherwise is ignored (`let _ =`).
send(c, v) == IF rxAlive[c] THEN [chan EXCEPT ![c] = v] ELSE chan

\* Variant: `responder.send(..).unwrap()`, which panics on a dropped receiver.
after_send_unwrap(c) == IF rxAlive[c] THEN "pop" ELSE "panicked"

\* Where the worker goes after `let _ = responder.send(..)` (tx_queue.rs:104,
\* 121): the send's result is discarded and the loop goes on.
after_send(c) == "pop"

\* Transaction { executor, responder, retry_count: 0 } (tx_queue.rs:69-73);
\* `invoked` and `sleeps` are history: attempts made, first delays slept.
NewTx(c, kind) ==
    [id |-> c, kind |-> kind, retry_count |-> 0, invoked |-> 0, sleeps |-> <<>>]

InitQueue ==
    /\ queue = <<>>
    /\ processing = FALSE
    /\ cpc = [c \in Calls |-> "start"]
    /\ chan = [c \in Calls |-> NoRes]
    /\ rxAlive = [c \in Calls |-> TRUE]
    /\ observed = [c \in Calls |-> NoRes]
    /\ wpc = [w \in Workers |-> "none"]
    /\ held = [w \in Workers |-> NoTx]
    /\ wres = [w \in Workers |-> NoRes]
    /\ delay = [w \in Workers |-> 0]
    /\ finished = [c \in Calls |-> NotFinished]

\* Miner::current_task is None (builder), CURRENT_SERVER is None
\* (inference.rs:119), nothing is spawned.
InitSupervisor ==
    /\ current_task = 0
    /\ evn = 0
    /\ epc = "idle"
    /\ ecall = 0
    /\ ekind = "none"
    /\ last = [kind |-> "none", hit |-> FALSE, err |-> FALSE]
    /\ owner_file = 0
    /\ task_dir = FALSE
    /\ bpc = [s \in Slots |-> "none"]
    /\ btask = [s \in Slots |-> 0]
    /\ btype = [s \in Slots |-> "none"]
    /\ dres = [s \in Slots |-> "none"]
    /\ status = [s \in Slots |-> "none"]
    /\ stpc = [s \in Slots |-> "none"]
    /\ spc = [s \in Slots |-> "none"]
    /\ shutdown_tx = [s \in Slots |-> "none"]
    /\ done = [s \in Slots |-> "none"]
    /\ rd = [s \in Slots |-> "none"]
    /\ current_server = 0
    /\ port = 0

\* No shutdown call and no connection.
InitHandlers ==
    /\ shpc = "none"
    /\ shslot = 0
    /\ shabort = FALSE
    /\ hpc = [k \in Conns |-> "none"]
    /\ hslot = [k \in Conns |-> 0]
    /\ hread = [k \in Conns |-> "none"]
    /\ hmsgs = [k \in Conns |-> 0]
    /\ hran = [k \in Conns |-> FALSE]
    /\ hclient = [k \in Conns |-> "none"]

\* start_miner is inside its block loop (registration.rs:107-122) with a
\* written identity file.
InitInLoop ==
    /\ kpc = "process"
    /\ identity_file = "valid"

\* No downloader has been called.
InitNoDownload ==
    /\ dkind = "none"
    /\ dlpc = "none"
    /\ remote = <<>>
    /\ lfile = <<>>
    /\ total_size = 0
    /\ downloaded = 0
    /\ cursor = 0
    /\ gets = <<>>

\* No crypto function has been called.
InitNoCrypto ==
    /\ apc = "none"
    /\ akey = 0
    /\ amsg = <<>>
    /\ asealed = [tag |-> "none"]
    /\ ainput = <<>>
    /\ aopened = [tag |-> "none"]
    /\ aresealed = [tag |-> "none"]

\* No engine runtime is set up or running and no builder is in use, but
\* for `part`.
InitRuntimes(part) ==
    /\ IF part # "nzk" THEN nzk = [pc |-> "none"] ELSE TRUE
    /\ IF part # "triton" THEN triton = [pc |-> "none"] ELSE TRUE
    /\ IF part # "builder" THEN builder = [pc |-> "none"] ELSE TRUE

InitIdle == InitNoDownload /\ InitNoCrypto /\ InitRuntimes("none")

Init == InitQueue /\ InitSupervisor /\ InitHandlers /\ InitInLoop /\ InitIdle

\* enqueue, first half: `self.inner.lock().await.push_back(tx)`.
EnqueuePush(c, kind) ==
    /\ cpc[c] = "start"
    /\ \A d \in Calls : d < c => cpc[d] # "start"
    /\ queue' = Append(queue, NewTx(c, kind))
    /\ cpc' = [cpc EXCEPT ![c] = "pushed"]
    /\ UNCHANGED <<processing, chan, rxAlive, observed, wpc, held, wres, delay,
                   finished>>

\* The worker a tokio::spawn at tx_queue.rs:90 creates next.
NextWorker ==
    CHOOSE w \in Workers :
        /\ wpc[w] = "none"
        /\ \A v \in Workers : wpc[v] = "none" => w <= v

\* enqueue, second half: start_processing() and `Ok(rx)`.
StartProcessing(c) ==
    /\ cpc[c] = "pushed"
    /\ processing' = TRUE
    /\ wpc' = IF swap_previous THEN wpc ELSE [wpc EXCEPT ![NextWorker] = "pop"]
    /\ cpc' = [cpc EXCEPT ![c] = "returned"]
    /\ UNCHANGED <<queue, chan, rxAlive, observed, held, wres, delay,
                   finished>>

\* The caller awaits the receiver and reads the delivered value.
Receive(c) ==
    /\ cpc[c] = "returned"
    /\ rxAlive[c]
    /\ chan[c] # NoRes
    /\ observed' = [observed EXCEPT ![c] = chan[c]]
    /\ cpc' = [cpc EXCEPT ![c] = "received"]
    /\ UNCHANGED <<queue, processing, chan, rxAlive, wpc, held, wres, delay,
                   finished>>

\* The caller drops the receiver without reading it.
DropReceiver(c) ==
    /\ cpc[c] = "returned"
    /\ rxAlive[c]
    /\ rxAlive' = [rxAlive EXCEPT ![c] = FALSE]
    /\ cpc' = [cpc EXCEPT ![c] = "dropped"]
    /\ UNCHANGED <<queue, processing, chan, observed, wpc, held, wres, delay,
                   finished>>

\* Worker loop, tx_queue.rs:92-96 and the `None` test of the match.
WorkerPop(w) ==
    /\ wpc[w] = "pop"
    /\ IF queue = <<>>
       THEN /\ wpc' = [wpc EXCEPT ![w] = "empty"]
            /\ UNCHANGED <<queue, held>>
       ELSE /\ held' = [held EXCEPT ![w] = Head(queue)]
            /\ queue' = Tail(queue)
            /\ wpc' = [wpc EXCEPT ![w] = "exec"]
    /\ UNCHANGED <<processing, cpc, chan, rxAlive, observed, wres, delay,
                   finished>>

\* tx.execute().await, tx_queue.rs:100: one attempt, with one of `outcomes`.
WorkerExecuteFrom(w, outcomes) ==
    /\ wpc[w] = "exec"
    /\ \E r \in outcomes : wres' = [wres EXCEPT ![w] = r]
    /\ held' = [held EXCEPT ![w].invoked = @ + 1]
    /\ wpc' = [wpc EXCEPT ![w] = "match"]
    /\ UNCHANGED <<queue, processing, cpc, chan, rxAlive, observed, delay,
                   finished>>

\* One attempt against a chain that may answer anything.
WorkerExecute(w) == WorkerExecuteFrom(w, execute(held[w].kind))

\* The three arms of the match on the attempt's result, tx_queue.rs:101-123.
WorkerMatch(w) ==
    /\ wpc[w] = "match"
    /\ LET tx == held[w]
           r == wres[w].result
       IN  IF r.tag = "Ok"
           THEN /\ chan' = send(tx.id, r)
                /\ finished' = [finished EXCEPT ![tx.id] = "Ok"]
                /\ held' = [held EXCEPT ![w] = NoTx]
                /\ wpc' = [wpc EXCEPT ![w] = after_send(tx.id)]
                /\ UNCHANGED delay
           ELSE IF retry_allowed(tx)
           THEN /\ held' = [held EXCEPT
                              ![w].retry_count = @ + 1,
                              ![w].sleeps =
                                  IF Len(@) < SleepLog
                                  THEN Append(@, delay_ms(tx.retry_count + 1))
                                  ELSE @]
                /\ delay' = [delay EXCEPT ![w] = delay_ms(tx.retry_count + 1)]
                /\ wpc' = [wpc EXCEPT ![w] = "sleep"]
                /\ UNCHANGED <<chan, finished>>
           ELSE /\ chan' = send(tx.id, [tag |-> "Err",
                                        retry_count |-> tx.retry_count])
                /\ finished' = [finished EXCEPT ![tx.id] = "Err"]
                /\ held' = [held EXCEPT ![w] = NoTx]
                /\ wpc' = [wpc EXCEPT ![w] = after_send(tx.id)]
                /\ UNCHANGED delay
    /\ wres' = [wres EXCEPT ![w] = NoRes]
    /\ UNCHANGED <<queue, processing, cpc, rxAlive, observed>>

\* sleep(delay) elapses, then `inner.lock().await.push_front(tx)`,
\* tx_queue.rs:113-116.
WorkerRequeue(w) ==
    /\ wpc[w] = "sleep"
    /\ queue' = push_front(queue, held[w])
    /\ held' = [held EXCEPT ![w] = NoTx]
    /\ delay' = [delay EXCEPT ![w] = 0]
    /\ wpc' = [wpc EXCEPT ![w] = "pop"]
    /\ UNCHANGED <<processing, cpc, chan, rxAlive, observed, wres, finished>>

\* `None` arm: processing_flag.store(false) and break, tx_queue.rs:126-130.
WorkerExit(w) ==
    /\ wpc[w] = "empty"
    /\ processing' = FALSE
    /\ wpc' = [wpc EXCEPT ![w] = "done"]
    /\ UNCHANGED <<queue, cpc, chan, rxAlive, observed, held, wres, delay,
                   finished>>

Next ==
    \/ \E c \in Calls : EnqueuePush(c, "opaque") /\ UNCHANGED ovars
    \/ \E c \in Calls : StartProcessing(c) /\ UNCHANGED ovars
    \/ \E c \in Calls : Receive(c) /\ UNCHANGED ovars
    \/ \E c \in Calls : DropReceiver(c) /\ UNCHANGED ovars
    \/ \E w \in Workers : WorkerPop(w) /\ UNCHANGED ovars
    \/ \E w \in Workers : WorkerExecute(w) /\ UNCHANGED ovars
    \/ \E w \in Workers : WorkerMatch(w) /\ UNCHANGED ovars
    \/ \E w \in Workers : WorkerRequeue(w) /\ UNCHANGED ovars
    \/ \E w \in Workers : WorkerExit(w) /\ UNCHANGED ovars

Spec == Init /\ [][Next]_vars

\* The controller and the event processor enqueue a chain call and await its
\* receiver before they go on (registration.rs:64-80, event_processor.rs:
\* 178-194, 214-231): call c is made once call c - 1 has been answered.
ControllerEnqueue(c, kind) ==
    /\ IF c = 1 THEN TRUE ELSE cpc[c - 1] = "received"
    /\ EnqueuePush(c, kind)

\* The same queue with the chain calls of tx_builder.rs as executors.
NextTx ==
    \/ \E c \in Calls, kind \in CallKinds :
          ControllerEnqueue(c, kind) /\ UNCHANGED ovars
    \/ \E c \in Calls : StartProcessing(c) /\ UNCHANGED ovars
    \/ \E c \in Calls : Receive(c) /\ UNCHANGED ovars
    \/ \E w \in Workers : WorkerPop(w) /\ UNCHANGED ovars
    \/ \E w \in Workers : WorkerExecute(w) /\ UNCHANGED ovars
    \/ \E w \in Workers : WorkerMatch(w) /\ UNCHANGED ovars
    \/ \E w \in Workers : WorkerRequeue(w) /\ UNCHANGED ovars
    \/ \E w \in Workers : WorkerExit(w) /\ UNCHANGED ovars

SpecTx == Init /\ [][NextTx]_vars

\* Worker tasks are spawned on the tokio runtime and an enqueue() call runs on
\* to start_processing(): both keep being scheduled.  New enqueue() calls and
\* what callers do with their receivers are the environment's choice.
FairSpec ==
    /\ Spec
    /\ \A c \in Calls : WF_vars(StartProcessing(c) /\ UNCHANGED ovars)
    /\ \A w \in Workers : WF_vars(WorkerPop(w) /\ UNCHANGED ovars)
    /\ \A w \in Workers : WF_vars(WorkerExecute(w) /\ UNCHANGED ovars)
    /\ \A w \in Workers : WF_vars(WorkerMatch(w) /\ UNCHANGED ovars)
    /\ \A w \in Workers : WF_vars(WorkerRequeue(w) /\ UNCHANGED ovars)
    /\ \A w \in Workers : WF_vars(WorkerExit(w) /\ UNCHANGED ovars)


\* ------------------------------------------------------------- Part II
\* process_event (event_processor.rs) is called for one chain event at a time
\* from the block loop of start_miner (registration.rs:105-122), which only
\* prints an error it returns.  spawn_inference_server (inference.rs:121-282)
\* runs in the background task of a TaskScheduled event.

\* A chain that stops failing a call after MaxChainFailures attempts.
MaxChainFailures == 1

ChainAnswers(tx) ==
    IF tx.retry_count < MaxChainFailures
    THEN execute(tx.kind)
    ELSE {r \in execute(tx.kind) : r.result.tag = "Ok"}

\* The variants of InferenceEngine, inference.rs:33-38.
EngineKinds == {"OpenInference", "NeuroZk", "FlashInference"}

\* The background task the next accepted TaskScheduled event spawns.
FreeSlot ==
    CHOOSE s \in Slots :
        /\ bpc[s] = "none"
        /\ \A v \in Slots : bpc[v] = "none" => s <= v

\* tx_que.enqueue(..) up to its push_back, made by process_event or by
\* start_miner.
EventEnqueue(kind) ==
    \E c \in Calls :
        /\ EnqueuePush(c, kind)
        /\ ecall' = c
        /\ ekind' = kind
        /\ epc' = "enqueued"

\* `for event in events.iter()` with `miner.process_event(&ev).await`,
\* registration.rs:112-121: the next event is taken once the call for the
\* one before has returned.
process_event_returned_or_not == TRUE

process_event_returned == epc = "idle"

\* `assigned_miner == &miner_data.miner_identity`, event_processor.rs:97-100,
\* after the identity file was read and parsed (`?` returns otherwise).
assigned_to_any(mine, readable) == readable

assigned_to_me(mine, readable) == readable /\ mine

\* `miner.current_task = Some(CurrentTask { id: task_scheduled.task_id, .. })`,
\* event_processor.rs:106-111: whatever current_task held is replaced.
task_kept_if_busy(cur, t) == IF cur = 0 THEN t ELSE cur

task_after_scheduled(cur, t) == t

\* TaskScheduled, event_processor.rs:85-157.  `mine`: the assigned worker is
\* the identity in the identity file; `readable`: that file is read and
\* parsed; `owner_ok`: the task-owner file is written.
TaskScheduled(t, mine, readable, owner_ok) ==
    /\ kpc = "process"
    /\ process_event_returned
    /\ evn < MaxEvents
    /\ readable => identity_file = "valid"
    /\ (assigned_to_me(mine, readable) /\ owner_ok)
          => \E s \in Slots : bpc[s] = "none"
    /\ evn' = evn + 1
    /\ last' = [kind |-> "TaskScheduled",
                hit |-> assigned_to_me(mine, readable),
                err |-> ~readable \/ (mine /\ ~owner_ok)]
    /\ current_task' = IF assigned_to_me(mine, readable)
                       THEN task_after_scheduled(current_task, t)
                       ELSE current_task
    /\ IF assigned_to_me(mine, readable) /\ owner_ok
       THEN /\ owner_file' = t
            /\ bpc' = [bpc EXCEPT ![FreeSlot] = "download"]
            /\ btask' = [btask EXCEPT ![FreeSlot] = t]
            /\ btype' = [btype EXCEPT ![FreeSlot] = "NeuroZk"]
            /\ UNCHANGED dres
       ELSE UNCHANGED <<owner_file, bvars>>
    /\ UNCHANGED <<epc, ecall, ekind, task_dir, status, stpc, spc,
                   shutdown_tx, done, rd, current_server, port>>
    /\ UNCHANGED <<qvars, hvars, cvars>>

\* `current_task.id == task_stop_requested.task_id` inside
\* `if let Some(current_task)`, event_processor.rs:159-162 (and 205-211).
is_any_task(t) == current_task # 0

is_current_task(t) == current_task # 0 /\ current_task = t

\* `?` after each remove_dir_all, event_processor.rs:167-173: the handler
\* goes on to line 176 only when all three have succeeded.
all_removed_or_first(removed) == removed >= 1

all_removed(removed) == removed = 3

\* TaskStopRequested, event_processor.rs:159-203.  `removed`: how many of the
\* three remove_dir_all calls (task directory, log directory, task-owner
\* directory) succeed before one fails and `?` returns.
TaskStopRequested(t, removed) ==
    /\ kpc = "process"
    /\ process_event_returned
    /\ evn < MaxEvents
    /\ removed >= 1 => task_dir
    /\ evn' = evn + 1
    /\ last' = [kind |-> "TaskStopRequested", hit |-> is_current_task(t),
                err |-> is_current_task(t) /\ ~all_removed(removed)]
    /\ IF is_current_task(t)
       THEN /\ task_dir' = IF removed >= 1 THEN FALSE ELSE task_dir
            /\ IF all_removed(removed)
               THEN /\ owner_file' = 0
                    /\ current_task' = 0
                    /\ EventEnqueue("confirm_miner_vacation")
               ELSE /\ UNCHANGED <<owner_file, current_task, epc, ecall, ekind>>
                    /\ UNCHANGED qvars
       ELSE /\ UNCHANGED <<task_dir, owner_file, current_task, epc, ecall,
                           ekind>>
            /\ UNCHANGED qvars
    /\ UNCHANGED <<bvars, status, stpc, spc, shutdown_tx, done, rd,
                   current_server, port>>
    /\ UNCHANGED <<hvars, cvars>>

\* generate_proof, proof.rs:1-28: get_paths()?, NeuroZKEngine::new(..)? and
\* prove_inference(..)? each return the error; otherwise the proof bytes.
generate_proof(paths_ok, engine_ok, prove_ok) ==
    IF paths_ok /\ engine_ok /\ prove_ok
    THEN [tag |-> "Ok", bytes |-> "proof"]
    ELSE [tag |-> "Err"]

ProofResults == {generate_proof(a, b, c) : a, b, c \in BOOLEAN}

\* `generate_proof().await?`, event_processor.rs:212: process_event goes on
\* with the proof, or returns the error.
proof_or_return_unchecked(proof) == TRUE

proof_or_return(proof) == proof.tag = "Ok"

\* NzkProofRequested, event_processor.rs:205-240.  `proof`: what
\* generate_proof returns.
NzkProofRequested(t, proof) ==
    /\ kpc = "process"
    /\ process_event_returned
    /\ evn < MaxEvents
    /\ evn' = evn + 1
    /\ last' = [kind |-> "NzkProofRequested", hit |-> is_current_task(t),
                err |-> is_current_task(t) /\ ~proof_or_return(proof)]
    /\ IF is_current_task(t) /\ proof_or_return(proof)
       THEN EventEnqueue("submit_proof")
       ELSE UNCHANGED <<epc, ecall, ekind>> /\ UNCHANGED qvars
    /\ UNCHANGED <<current_task, owner_file, task_dir, bvars, status, stpc,
                   spc, shutdown_tx, done, rd, current_server, port>>
    /\ UNCHANGED <<hvars, cvars>>

\* The rest of enqueue(): start_processing() and `Ok(rx)`.
EventStartProcessing ==
    /\ epc = "enqueued"
    /\ StartProcessing(ecall)
    /\ epc' = "await"
    /\ UNCHANGED <<current_task, evn, ecall, ekind, last, owner_file, task_dir,
                   bvars, status, stpc, spc, shutdown_tx, done, rd,
                   current_server, port>>
    /\ UNCHANGED <<hvars, cvars>>

\* `match rx.await`: every arm prints; process_event returns.
EventReceive ==
    /\ epc = "await"
    /\ Receive(ecall)
    /\ epc' = "idle"
    /\ UNCHANGED <<current_task, evn, ecall, ekind, last, owner_file, task_dir,
                   bvars, status, stpc, spc, shutdown_tx, done, rd,
                   current_server, port>>
    /\ UNCHANGED <<hvars, cvars>>

\* Background task, event_processor.rs:128-135: download_model_archive; an
\* error (~ok) is printed and the task goes on.  `created`: it made the
\* task directory (storage_interactor.rs:75; the one of cess_interactor.rs
\* does not touch it).
Download(s) ==
    /\ bpc[s] = "download"
    /\ \E ok, created \in BOOLEAN :
          /\ task_dir' = (task_dir \/ created)
          /\ dres' = [dres EXCEPT ![s] = IF ok THEN "Ok" ELSE "Err"]
    /\ bpc' = [bpc EXCEPT ![s] = "spawn"]
    /\ UNCHANGED <<evars, btask, btype, status, stpc, spc, shutdown_tx, done,
                   rd, current_server, port>>
    /\ UNCHANGED <<qvars, hvars>>

\* spawn_inference_server up to the spawn of the server task,
\* inference.rs:121-271: the channels, the engine (`engine_ok`: its
\* constructor succeeds, otherwise `?` returns), the setup task and the
\* server task.
spawn_inference_server(s, engine_ok) ==
    /\ bpc[s] = "spawn"
    /\ IF engine_ok
       THEN /\ status' = [status EXCEPT ![s] = "Idle"]
            /\ shutdown_tx' = [shutdown_tx EXCEPT ![s] = "held"]
            /\ done' = [done EXCEPT ![s] = "open"]
            /\ stpc' = [stpc EXCEPT ![s] = "start"]
            /\ spc' = [spc EXCEPT ![s] = "wait_ready"]
            /\ bpc' = [bpc EXCEPT ![s] = "store"]
       ELSE /\ bpc' = [bpc EXCEPT ![s] = "done"]
            /\ UNCHANGED <<status, shutdown_tx, done, stpc, spc>>
    /\ dres' = [dres EXCEPT ![s] = "none"]
    /\ UNCHANGED <<evars, btask, btype, task_dir, rd,
                   current_server, port>>
    /\ UNCHANGED <<qvars, hvars>>

\* Dropping a RunningInferenceServer drops its shutdown_sender and its
\* shutdown_done_rx.
drop_sender_kept(stx, s) == stx

drop_sender(stx, s) ==
    IF s # 0 /\ stx[s] = "held" THEN [stx EXCEPT ![s] = "dropped"] ELSE stx

drop_done_rx(d, s) ==
    IF s # 0 /\ d[s] = "open" THEN [d EXCEPT ![s] = "rx_dropped"] ELSE d

\* `*CURRENT_SERVER.lock().await = Some(..)`, inference.rs:273-281: the
\* previous value of the cell is dropped; the function returns, which drops
\* its own status_tx.
StoreCurrentServer(s) ==
    /\ bpc[s] = "store"
    /\ current_server' = s
    /\ shutdown_tx' = drop_sender(shutdown_tx, current_server)
    /\ done' = drop_done_rx(done, current_server)
    /\ bpc' = [bpc EXCEPT ![s] = "done"]
    /\ UNCHANGED <<evars, btask, btype, dres, task_dir, status, stpc,
                   spc, rd, port>>
    /\ UNCHANGED <<qvars, hvars>>

\* What engine.setup() can end in, inference.rs:167-193: the OpenInference
\* arm sends Ready without any setup.
SetupOutcomes(kind) == IF kind = "OpenInference" THEN {TRUE} ELSE BOOLEAN

status_after_setup_idle(ok) == IF ok THEN "Ready" ELSE "Idle"

status_after_setup(ok) == IF ok THEN "Ready" ELSE "Failed"

\* Setup task, inference.rs:165: status_tx.send(Initializing).
SetupStart(s) ==
    /\ stpc[s] = "start"
    /\ status' = [status EXCEPT ![s] = "Initializing"]
    /\ stpc' = [stpc EXCEPT ![s] = "setup"]
    /\ UNCHANGED <<evars, bvars, task_dir, spc, shutdown_tx, done, rd,
                   current_server, port>>
    /\ UNCHANGED <<qvars, hvars>>

\* Setup task, inference.rs:167-193: engine.setup() ends, Ready or Failed is
\* sent and the task ends, which drops its status_tx.
SetupFinish(s) ==
    /\ stpc[s] = "setup"
    /\ \E ok \in SetupOutcomes(btype[s]) :
          status' = [status EXCEPT ![s] = status_after_setup(ok)]
    /\ stpc' = [stpc EXCEPT ![s] = "done"]
    /\ UNCHANGED <<evars, bvars, task_dir, spc, shutdown_tx, done, rd,
                   current_server, port>>
    /\ UNCHANGED <<qvars, hvars>>

\* Both senders of the status channel are gone: the clone moved into the
\* setup task (inference.rs:162-164) and the one spawn_inference_server
\* keeps until it returns (inference.rs:130).
status_senders_gone(s) == stpc[s] = "done" /\ bpc[s] = "done"

\* Server task, inference.rs:214-224: leaves the loop when it reads Ready,
\* or when changed() fails because no status sender is left.
ServerWaitReady(s) ==
    /\ spc[s] = "wait_ready"
    /\ status[s] = "Ready" \/ status_senders_gone(s)
    /\ rd' = [rd EXCEPT ![s] = status[s]]
    /\ spc' = [spc EXCEPT ![s] = "bind"]
    /\ UNCHANGED <<evars, bvars, task_dir, status, stpc, shutdown_tx, done,
                   current_server, port>>
    /\ UNCHANGED <<qvars, hvars>>

\* Server task, inference.rs:230-257: TcpListener::bind, which fails while
\* another listener holds the port, then the tailnet and the hostname
\* (`env_ok`); a failure returns from the task, which drops shutdown_done_tx.
ServerBind(s, env_ok) ==
    /\ spc[s] = "bind"
    /\ IF port = 0 /\ env_ok
       THEN /\ port' = s
            /\ spc' = [spc EXCEPT ![s] = "serving"]
            /\ UNCHANGED done
       ELSE /\ spc' = [spc EXCEPT ![s] = "failed"]
            /\ done' = [done EXCEPT
                          ![s] = IF @ = "open" THEN "tx_dropped" ELSE @]
            /\ UNCHANGED port
    /\ UNCHANGED <<evars, bvars, task_dir, status, stpc, shutdown_tx, rd,
                   current_server>>
    /\ UNCHANGED <<qvars, hvars>>

\* Server task, inference.rs:259-270: shutdown_rx.changed() resolves once a
\* value was sent or the sender is gone; axum::serve returns, the listener
\* is dropped and shutdown_done_tx.send(()) ends the task.
ServerShutdown(s) ==
    /\ spc[s] = "serving"
    /\ shutdown_tx[s] \in {"sent", "dropped"}
    /\ spc' = [spc EXCEPT ![s] = "ended"]
    /\ done' = [done EXCEPT ![s] = IF @ = "open" THEN "sent" ELSE @]
    /\ port' = 0
    /\ UNCHANGED <<evars, bvars, task_dir, status, stpc, shutdown_tx, rd,
                   current_server>>
    /\ UNCHANGED <<qvars, hvars>>

NextSup ==
    \/ \E t \in TaskIds, mine, readable, owner_ok \in BOOLEAN :
          TaskScheduled(t, mine, readable, owner_ok)
    \/ \E t \in TaskIds, removed \in 0..3 : TaskStopRequested(t, removed)
    \/ \E t \in TaskIds, proof \in ProofResults : NzkProofRequested(t, proof)
    \/ EventStartProcessing
    \/ EventReceive
    \/ \E s \in Slots : Download(s)
    \/ \E s \in Slots, engine_ok \in BOOLEAN : spawn_inference_server(s, engine_ok)
    \/ \E s \in Slots : StoreCurrentServer(s)
    \/ \E s \in Slots : SetupStart(s)
    \/ \E s \in Slots : SetupFinish(s)
    \/ \E s \in Slots : ServerWaitReady(s)
    \/ \E s \in Slots, env_ok \in BOOLEAN : ServerBind(s, env_ok)
    \/ \E s \in Slots : ServerShutdown(s)
    \/ \E w \in Workers : WorkerPop(w) /\ UNCHANGED ovars
    \/ \E w \in Workers :
          WorkerExecuteFrom(w, ChainAnswers(held[w])) /\ UNCHANGED ovars
    \/ \E w \in Workers : WorkerMatch(w) /\ UNCHANGED ovars
    \/ \E w \in Workers : WorkerRequeue(w) /\ UNCHANGED ovars
    \/ \E w \in Workers : WorkerExit(w) /\ UNCHANGED ovars

SpecSup == Init /\ [][NextSup]_vars

\* ------------------------------------------------------------ Part III
\* One inference server from the call of spawn_inference_server on: its
\* tasks, the connections it accepts (ws_handler, handle_socket) and a call
\* of RunningInferenceServer::shutdown on it.

\* spawn_inference_server(task, port) is about to run for a task of any kind
\* (inference.rs:121-124); the task directory may have been made already.
InitServer ==
    /\ current_task = 1
    /\ evn = 0
    /\ epc = "idle"
    /\ ecall = 0
    /\ ekind = "none"
    /\ last = [kind |-> "none", hit |-> FALSE, err |-> FALSE]
    /\ owner_file = 1
    /\ task_dir \in BOOLEAN
    /\ bpc = [s \in Slots |-> IF s = 1 THEN "spawn" ELSE "none"]
    /\ btask = [s \in Slots |-> IF s = 1 THEN 1 ELSE 0]
    /\ btype \in {[s \in Slots |-> IF s = 1 THEN kind ELSE "none"] :
                    kind \in EngineKinds}
    /\ dres \in {[s \in Slots |-> IF s = 1 THEN r ELSE "none"] :
                   r \in {"Ok", "Err"}}
    /\ status = [s \in Slots |-> "none"]
    /\ stpc = [s \in Slots |-> "none"]
    /\ spc = [s \in Slots |-> "none"]
    /\ shutdown_tx = [s \in Slots |-> "none"]
    /\ done = [s \in Slots |-> "none"]
    /\ rd = [s \in Slots |-> "none"]
    /\ current_server = 0
    /\ port = 0

\* The connection the next accept is for.
NextConn ==
    CHOOSE k \in Conns :
        /\ hpc[k] = "none"
        /\ \A j \in Conns : hpc[j] = "none" => k <= j

\* axum::serve accepts a connection on the route and ws_handler upgrades it,
\* inference.rs:226-228, 259, 284-299.
Accept(s) ==
    /\ spc[s] = "serving"
    /\ \E k \in Conns : hpc[k] = "none"
    /\ hpc' = [hpc EXCEPT ![NextConn] = "open"]
    /\ hslot' = [hslot EXCEPT ![NextConn] = s]
    /\ hclient' = [hclient EXCEPT ![NextConn] = "open"]
    /\ UNCHANGED <<shpc, shslot, shabort, hread, hmsgs, hran>>
    /\ UNCHANGED <<qvars, svars>>

\* `current_status != EngineStatus::Ready`, inference.rs:306.
needs_status_frame_unless_failed(st) == st \notin {"Ready", "Failed"}

needs_status_frame(st) == st # "Ready"

\* The engine's mutex (Arc<Mutex<..>>, inference.rs:33-38) is held by the
\* setup task of a NeuroZk or FlashInference engine while setup() runs
\* (inference.rs:172 and 183) and by a handler from `lock().await` to the
\* return of run (inference.rs:352, 357, 362).
engine_locked(s) ==
    \/ btype[s] # "OpenInference" /\ stpc[s] = "setup"
    \/ \E k \in Conns : hslot[k] = s /\ hpc[k] = "running"

\* handle_socket, inference.rs:301-315 and 317-350: reads the status; unless
\* it is Ready, sends one text message and returns; otherwise goes on to
\* lock the engine.
handle_socket(k) ==
    /\ hpc[k] = "open"
    /\ LET st == status[hslot[k]]
       IN  /\ hread' = [hread EXCEPT ![k] = st]
           /\ rd' = [rd EXCEPT ![hslot[k]] = st]
           /\ IF needs_status_frame(st)
              THEN /\ hmsgs' = [hmsgs EXCEPT ![k] = @ + 1]
                   /\ hpc' = [hpc EXCEPT ![k] = "closed"]
                   /\ UNCHANGED hran
              ELSE /\ hpc' = [hpc EXCEPT ![k] = "locking"]
                   /\ UNCHANGED <<hmsgs, hran>>
    /\ UNCHANGED <<shpc, shslot, shabort, hslot, hclient>>
    /\ UNCHANGED <<evars, bvars, task_dir, status, stpc, spc, shutdown_tx,
                   done, current_server, port>>
    /\ UNCHANGED qvars

\* `engine.lock().await.run(request_stream, response_stream)`,
\* inference.rs:350-366: the handler gets the engine's lock and calls run.
EngineRun(k) ==
    /\ hpc[k] = "locking"
    /\ ~engine_locked(hslot[k])
    /\ hpc' = [hpc EXCEPT ![k] = "running"]
    /\ hran' = [hran EXCEPT ![k] = TRUE]
    /\ UNCHANGED <<shpc, shslot, shabort, hslot, hread, hmsgs, hclient>>
    /\ UNCHANGED <<qvars, svars>>

\* The client closes the connection: receiver.next() gives None from then on.
ClientClose(k) ==
    /\ hclient[k] = "open"
    /\ hpc[k] \in {"open", "locking", "running"}
    /\ hclient' = [hclient EXCEPT ![k] = "closed"]
    /\ UNCHANGED <<shpc, shslot, shabort, hpc, hslot, hread, hmsgs, hran>>
    /\ UNCHANGED <<qvars, svars>>

\* request_stream, inference.rs:320-337: the loop is left only by the
\* `break` taken when shutdown_rx has changed to true; a None from
\* receiver.next() (the client closed) fails the `if let` and the loop goes
\* round again, and so does a changed() that failed because the sender was
\* dropped.
request_stream_ends(sig, client) == sig = "sent"

\* The engine's run returns and handle_socket with it, which releases the
\* engine's lock, inference.rs:350-368: every run leaves its loop when the
\* request stream ends (neuro-zk-runtime lib.rs:86, flash-infer-runtime
\* lib.rs:128-162, client.rs:363); `early`: TritonClient::run returns from
\* inside the loop on a request it took (client.rs:382-426).
RunReturns(k, early) ==
    /\ hpc[k] = "running"
    /\ \/ request_stream_ends(shutdown_tx[hslot[k]], hclient[k])
       \/ early /\ btype[hslot[k]] = "OpenInference" /\ hclient[k] = "open"
    /\ hpc' = [hpc EXCEPT ![k] = "closed"]
    /\ UNCHANGED <<shpc, shslot, shabort, hslot, hread, hmsgs, hran, hclient>>
    /\ UNCHANGED <<qvars, svars>>

\* A call of shutdown(self, task_dir), inference.rs:98: `self` is taken by
\* value, so the caller has moved the server out of CURRENT_SERVER, the only
\* place one is kept (inference.rs:273).
ShutdownCall(s) ==
    /\ shpc = "none"
    /\ current_server = s
    /\ current_server' = 0
    /\ shslot' = s
    /\ shpc' = "kill"
    /\ UNCHANGED <<shabort, hpc, hslot, hread, hmsgs, hran, hclient>>
    /\ UNCHANGED <<evars, bvars, task_dir, status, stpc, spc, shutdown_tx,
                   done, rd, port>>
    /\ UNCHANGED qvars

\* `self.engine.kill_engine(task_dir).await?`, inference.rs:99 and 40-71.
\* `ok`: the removal of the directory (OpenInference) or of the container
\* (FlashInference) succeeds.  The NeuroZk arm is todo!(), which panics.  An
\* error or a panic leaves shutdown and drops `self`.  The FlashInference
\* arm first waits for the engine's lock (inference.rs:65).
KillEngine(ok) ==
    /\ shpc = "kill"
    /\ btype[shslot] = "FlashInference" => ~engine_locked(shslot)
    /\ LET kind == btype[shslot]
           outcome == IF kind = "NeuroZk" THEN "panicked"
                      ELSE IF kind = "OpenInference" /\ ~task_dir THEN "signal"
                      ELSE IF ok THEN "signal" ELSE "returned_err"
       IN  /\ shpc' = outcome
           /\ task_dir' = IF kind = "OpenInference" /\ outcome = "signal"
                          THEN FALSE ELSE task_dir
           /\ IF outcome = "signal"
              THEN UNCHANGED <<shutdown_tx, done>>
              ELSE /\ shutdown_tx' = drop_sender(shutdown_tx, shslot)
                   /\ done' = drop_done_rx(done, shslot)
    /\ UNCHANGED <<shslot, shabort, hpc, hslot, hread, hmsgs, hran, hclient>>
    /\ UNCHANGED <<evars, bvars, status, stpc, spc, rd, current_server, port>>
    /\ UNCHANGED qvars

\* `let _ = self.shutdown_sender.send(true)`, inference.rs:100.
SendShutdown ==
    /\ shpc = "signal"
    /\ shutdown_tx' = [shutdown_tx EXCEPT ![shslot] = "sent"]
    /\ shpc' = "wait"
    /\ UNCHANGED <<shslot, shabort, hpc, hslot, hread, hmsgs, hran, hclient>>
    /\ UNCHANGED <<evars, bvars, task_dir, status, stpc, spc, done, rd,
                   current_server, port>>
    /\ UNCHANGED qvars

\* timeout(3 s, shutdown_done_rx) polls the receiver first: the timeout arm
\* is taken only while nothing was sent and the sender is alive.
timeout_elapses_always(d) == TRUE

timeout_elapses(d) == d = "open"

\* `match timeout(..).await`, inference.rs:102-116: the done signal or the
\* closed channel ends the wait; on a timeout self.handle.abort() cancels a
\* server task that has not returned.  shutdown returns Ok and drops `self`.
WaitDone ==
    /\ shpc = "wait"
    /\ IF timeout_elapses(done[shslot])
       THEN /\ spc' = [spc EXCEPT
                         ![shslot] = IF @ \in {"wait_ready", "bind", "serving"}
                                     THEN "aborted" ELSE @]
            /\ port' = IF port = shslot THEN 0 ELSE port
            /\ done' = [done EXCEPT ![shslot] = "timed_out"]
            /\ shabort' = TRUE
       ELSE UNCHANGED <<spc, port, done, shabort>>
    /\ shpc' = "returned_ok"
    /\ UNCHANGED <<shslot, hpc, hslot, hread, hmsgs, hran, hclient>>
    /\ UNCHANGED <<evars, bvars, task_dir, status, stpc, shutdown_tx, rd,
                   current_server>>
    /\ UNCHANGED qvars

NextServer ==
    \/ \E s \in Slots, engine_ok \in BOOLEAN : spawn_inference_server(s, engine_ok)
    \/ \E s \in Slots : StoreCurrentServer(s)
    \/ \E s \in Slots : SetupStart(s)
    \/ \E s \in Slots : SetupFinish(s)
    \/ \E s \in Slots : ServerWaitReady(s)
    \/ \E s \in Slots, env_ok \in BOOLEAN : ServerBind(s, env_ok)
    \/ \E s \in Slots : ServerShutdown(s)
    \/ \E s \in Slots : Accept(s)
    \/ \E k \in Conns : handle_socket(k)
    \/ \E k \in Conns : EngineRun(k)
    \/ \E k \in Conns : ClientClose(k)
    \/ \E k \in Conns, early \in BOOLEAN : RunReturns(k, early)
    \/ \E s \in Slots : ShutdownCall(s)
    \/ \E ok \in BOOLEAN : KillEngine(ok)
    \/ SendShutdown
    \/ WaitDone

InitServerRun ==
    InitQueue /\ InitServer /\ InitHandlers /\ InitInLoop /\ InitIdle

SpecServer == InitServerRun /\ [][NextServer]_vars

\* Every task the runtime holds is polled when it can move; what clients do,
\* whether shutdown is called and whether a TritonClient run returns early
\* are not promised.
FairSpecServer ==
    /\ SpecServer
    /\ \A s \in Slots :
          /\ WF_vars(StoreCurrentServer(s))
          /\ WF_vars(SetupStart(s))
          /\ WF_vars(SetupFinish(s))
          /\ WF_vars(ServerWaitReady(s))
          /\ WF_vars(ServerShutdown(s))
    /\ \A k \in Conns :
          /\ WF_vars(handle_socket(k))
          /\ WF_vars(EngineRun(k))
          /\ WF_vars(RunReturns(k, FALSE))
    /\ WF_vars(\E ok \in BOOLEAN : KillEngine(ok))
    /\ WF_vars(SendShutdown)
    /\ WF_vars(WaitDone)

\* ------------------------------------------------------------- Part IV
\* start_miner (registration.rs:52-183), called once by main (main.rs:66):
\* the registration at start, the subscription and the block loop that calls
\* process_event.  The inference servers of Part II share no state with it
\* and are left out; the background download stays, since TaskStopRequested
\* removes the directory it makes.

\* What this miner's identity looks like on the chain when
\* confirm_registration queries it.
ChainListings == {"listed", "unlisted", "query_error"}

\* confirm_registration, registration.rs:18-50: reading or parsing the
\* identity file fails with `?`; so does the storage query; otherwise the
\* identity is looked for among the executable workers.
confirm_registration(file, chain) ==
    IF file = "absent" \/ chain = "query_error" THEN "Err"
    ELSE IF chain = "listed" THEN "Ok(true)"
    ELSE "Ok(false)"

\* The tasks process_event spawns and their servers.
tvars == <<bvars, task_dir, status, stpc, spc, shutdown_tx, done, rd,
           current_server, port>>

\* start_miner, registration.rs:60-71 and 82-92: `Ok(true)` goes on to the
\* subscription; `Ok(false)` and `Err(e)` enqueue register.
StartMinerConfirm(chain) ==
    /\ kpc = "confirm"
    /\ IF confirm_registration(identity_file, chain) = "Ok(true)"
       THEN /\ kpc' = "subscribe"
            /\ UNCHANGED <<epc, ecall, ekind>>
            /\ UNCHANGED qvars
       ELSE /\ EventEnqueue("register")
            /\ kpc' = "registering"
    /\ UNCHANGED <<current_task, evn, last, owner_file, identity_file, dvars,
                   avars, rvars, tvars>>
    /\ UNCHANGED hvars

\* `match rx.await`, registration.rs:73-80 and 94-101: a Message is written
\* to the identity file (`write_ok`: update_identity_file succeeds, otherwise
\* `?` returns); every other arm prints.  All of them but the `?` fall
\* through to line 105.
RegistrationResult(write_ok) ==
    /\ kpc = "registering"
    /\ epc = "idle"
    /\ IF observed[ecall].tag = "Ok"
       THEN IF write_ok
            THEN identity_file' = "valid" /\ kpc' = "subscribe"
            ELSE kpc' = "returned_err" /\ UNCHANGED identity_file
       ELSE kpc' = "subscribe" /\ UNCHANGED identity_file
    /\ UNCHANGED <<current_task, evn, epc, ecall, ekind, last, owner_file,
                   dvars, avars, rvars, tvars>>
    /\ UNCHANGED <<qvars, hvars>>

\* `client.blocks().subscribe_finalized().await?`, registration.rs:105.
Subscribe(ok) ==
    /\ kpc = "subscribe"
    /\ kpc' = IF ok THEN "next_block" ELSE "returned_err"
    /\ UNCHANGED <<current_task, evn, epc, ecall, ekind, last, owner_file,
                   identity_file, dvars, avars, rvars, tvars>>
    /\ UNCHANGED <<qvars, hvars>>

\* What `blocks.next().await` can give: Some(Ok(block)), Some(Err(e)), None.
StreamItems == {"block", "error", "end"}

\* `while let Some(Ok(block)) = ..`, registration.rs:107.
continues_on_any(item) == item # "end"

continues_on(item) == item = "block"

\* registration.rs:107 and 182: the loop takes the block, or ends and
\* start_miner returns Ok(()).
NextBlock(item) ==
    /\ kpc = "next_block"
    /\ kpc' = IF continues_on(item) THEN "events" ELSE "returned_ok"
    /\ UNCHANGED <<current_task, evn, epc, ecall, ekind, last, owner_file,
                   identity_file, dvars, avars, rvars, tvars>>
    /\ UNCHANGED <<qvars, hvars>>

\* `block.events().await?`, registration.rs:110.
BlockEvents(ok) ==
    /\ kpc = "events"
    /\ kpc' = IF ok THEN "process" ELSE "returned_err"
    /\ UNCHANGED <<current_task, evn, epc, ecall, ekind, last, owner_file,
                   identity_file, dvars, avars, rvars, tvars>>
    /\ UNCHANGED <<qvars, hvars>>

\* The `for` of registration.rs:112-121 is through the block's events.
EndOfBlock ==
    /\ kpc = "process"
    /\ epc = "idle"
    /\ kpc' = "next_block"
    /\ UNCHANGED <<current_task, evn, epc, ecall, ekind, last, owner_file,
                   identity_file, dvars, avars, rvars, tvars>>
    /\ UNCHANGED <<qvars, hvars>>

\* main returns when start_miner has (main.rs:66-73), which ends the
\* runtime and every task on it.
Returned == {"returned_ok", "returned_err"}

process_running == kpc \notin Returned

\* The chain as start_miner's register call sees it: any answer, every time.
\* Later calls are answered as in Part II.
BootAnswers(tx) ==
    IF tx.kind = "register" THEN execute(tx.kind) ELSE ChainAnswers(tx)

\* The block loop with the event processor, the background download and the
\* queue worker.
NextLoop ==
    \/ \E item \in StreamItems : NextBlock(item)
    \/ \E ok \in BOOLEAN : BlockEvents(ok)
    \/ EndOfBlock
    \/ \E t \in TaskIds, mine, readable, owner_ok \in BOOLEAN :
          TaskScheduled(t, mine, readable, owner_ok)
    \/ \E t \in TaskIds, removed \in 0..3 : TaskStopRequested(t, removed)
    \/ \E t \in TaskIds, proof \in ProofResults : NzkProofRequested(t, proof)
    \/ EventStartProcessing
    \/ EventReceive
    \/ \E s \in Slots : process_running /\ Download(s)
    \/ \E w \in Workers : process_running /\ WorkerPop(w) /\ UNCHANGED ovars
    \/ \E w \in Workers :
          /\ process_running
          /\ WorkerExecuteFrom(w, ChainAnswers(held[w]))
          /\ UNCHANGED ovars
    \/ \E w \in Workers : process_running /\ WorkerMatch(w) /\ UNCHANGED ovars
    \/ \E w \in Workers :
          process_running /\ WorkerRequeue(w) /\ UNCHANGED ovars
    \/ \E w \in Workers : process_running /\ WorkerExit(w) /\ UNCHANGED ovars

\* The block loop has been entered while the miner holds task 1, whose
\* background task has ended: without a server (the engine constructor
\* failed, inference.rs:136-160), or with its server Ready and serving.
InitHoldingTask ==
    /\ current_task = 1
    /\ evn = 0
    /\ epc = "idle"
    /\ ecall = 0
    /\ ekind = "none"
    /\ last = [kind |-> "none", hit |-> FALSE, err |-> FALSE]
    /\ owner_file = 1
    /\ task_dir \in BOOLEAN
    /\ bpc = [s \in Slots |-> IF s = 1 THEN "done" ELSE "none"]
    /\ btask = [s \in Slots |-> IF s = 1 THEN 1 ELSE 0]
    /\ btype = [s \in Slots |-> IF s = 1 THEN "NeuroZk" ELSE "none"]
    /\ dres = [s \in Slots |-> "none"]
    /\ \E served \in BOOLEAN :
          LET of1(v) == [s \in Slots |-> IF s = 1 /\ served THEN v ELSE "none"]
          IN  /\ status = of1("Ready")
              /\ stpc = of1("done")
              /\ spc = of1("serving")
              /\ shutdown_tx = of1("held")
              /\ done = of1("open")
              /\ rd = of1("Ready")
              /\ current_server = (IF served THEN 1 ELSE 0)
              /\ port = (IF served THEN 1 ELSE 0)
    /\ kpc = "next_block"
    /\ identity_file = "valid"

InitLoop == InitQueue /\ InitHoldingTask /\ InitHandlers /\ InitIdle

SpecLoop == InitLoop /\ [][NextLoop]_vars

\* start_miner is called: no task, the identity file there or not.
InitColdStart ==
    /\ kpc = "confirm"
    /\ identity_file \in {"absent", "valid"}

InitBoot ==
    InitQueue /\ InitSupervisor /\ InitHandlers /\ InitColdStart /\ InitIdle

\* start_miner from its call on.
NextBoot ==
    \/ \E chain \in ChainListings : StartMinerConfirm(chain)
    \/ \E write_ok \in BOOLEAN : RegistrationResult(write_ok)
    \/ \E ok \in BOOLEAN : Subscribe(ok)
    \/ \E item \in StreamItems : NextBlock(item)
    \/ \E ok \in BOOLEAN : BlockEvents(ok)
    \/ EndOfBlock
    \/ \E t \in TaskIds, mine, readable, owner_ok \in BOOLEAN :
          TaskScheduled(t, mine, readable, owner_ok)
    \/ \E t \in TaskIds, removed \in 0..3 : TaskStopRequested(t, removed)
    \/ \E t \in TaskIds, proof \in ProofResults : NzkProofRequested(t, proof)
    \/ EventStartProcessing
    \/ EventReceive
    \/ \E s \in Slots : process_running /\ Download(s)
    \/ \E w \in Workers : process_running /\ WorkerPop(w) /\ UNCHANGED ovars
    \/ \E w \in Workers :
          /\ process_running
          /\ WorkerExecuteFrom(w, BootAnswers(held[w]))
          /\ UNCHANGED ovars
    \/ \E w \in Workers : process_running /\ WorkerMatch(w) /\ UNCHANGED ovars
    \/ \E w \in Workers :
          process_running /\ WorkerRequeue(w) /\ UNCHANGED ovars
    \/ \E w \in Workers : process_running /\ WorkerExit(w) /\ UNCHANGED ovars

SpecBoot == InitBoot /\ [][NextBoot]_vars

\* -------------------------------------------------------------- Part V
\* download_hf_model (huggingface.rs:10-89) and download_onnx_model
\* (onnx.rs:13-110) share the HEAD request, the size test and the loop of
\* Range requests.  File contents are sequences of blocks of BlockBytes
\* bytes; sizes and ranges are in bytes.  The server answers a Range request
\* with the bytes of that range, or fails.

MiB == 1024 * 1024

\* huggingface.rs:8, onnx.rs:11
CHUNK_SIZE == 100 * MiB

BlockBytes == CHUNK_SIZE \div 2

\* `std::fs::metadata(path)?.len()` of a file, and a Content-Length.
len_bytes(f) == Len(f) * BlockBytes

\* All but the downloader's own state.
not_dvars ==
    <<qvars, hvars, tvars, current_task, evn, epc, ecall, ekind, last,
      owner_file, mvars, avars, rvars>>

\* A downloader is called for a remote file and a local file that is a
\* prefix of it, possibly empty or absent, or an older, longer file.
InitDownload ==
    /\ dkind \in {"hf", "onnx"}
    /\ dlpc = "head"
    /\ \E n, m \in 0..MaxBlocks :
          /\ remote = [i \in 1..n |-> i]
          /\ lfile = [i \in 1..m |-> IF i <= n THEN i ELSE 0]
    /\ total_size = 0
    /\ downloaded = 0
    /\ cursor = 0
    /\ gets = <<>>

\* huggingface.rs:22-36, onnx.rs:31-45: the HEAD request and its
\* Content-Length; a failed request, a failure status and a missing or
\* malformed header return an error.
DlHead(resp) ==
    /\ dlpc = "head"
    /\ IF resp = "ok"
       THEN total_size' = len_bytes(remote) /\ dlpc' = "size"
       ELSE dlpc' = "err" /\ UNCHANGED total_size
    /\ UNCHANGED <<dkind, remote, lfile, downloaded, cursor, gets>>
    /\ UNCHANGED not_dvars

\* `if downloaded == total_size`, huggingface.rs:49, onnx.rs:58.
already_downloaded_never(have, total) == FALSE

already_downloaded(have, total) == have = total

\* huggingface.rs:40-52, onnx.rs:49-61: the length of the local file (0 if
\* there is none; `meta_ok`: metadata succeeds) and the early return.
DlSize(meta_ok) ==
    /\ dlpc = "size"
    /\ IF ~meta_ok
       THEN dlpc' = "err" /\ UNCHANGED downloaded
       ELSE /\ downloaded' = len_bytes(lfile)
            /\ dlpc' = IF already_downloaded(len_bytes(lfile), total_size)
                       THEN "ok" ELSE "open"
    /\ UNCHANGED <<dkind, remote, lfile, total_size, cursor, gets>>
    /\ UNCHANGED not_dvars

\* huggingface.rs:54-60, onnx.rs:66-76: (create_dir_all of the parent,)
\* open without truncation and seek to `downloaded`.
DlOpen(ok) ==
    /\ dlpc = "open"
    /\ IF ok
       THEN cursor' = downloaded /\ dlpc' = "loop"
       ELSE dlpc' = "err" /\ UNCHANGED cursor
    /\ UNCHANGED <<dkind, remote, lfile, total_size, downloaded, gets>>
    /\ UNCHANGED not_dvars

\* `std::cmp::min(downloaded + CHUNK_SIZE - 1, total_size - 1)`,
\* huggingface.rs:63, onnx.rs:79.
range_end_exclusive(have, total) == Min(have + CHUNK_SIZE, total)

range_end(have, total) == Min(have + CHUNK_SIZE - 1, total - 1)

\* The blocks of the remote file a server sends for `bytes=a-b`.
range_body(a, b) == SubSeq(remote, (a \div BlockBytes) + 1, (b + 1) \div BlockBytes)

\* Writing `body` to a file at byte position `pos`.
write_at(f, pos, body) ==
    LET at == pos \div BlockBytes
        n == IF at + Len(body) > Len(f) THEN at + Len(body) ELSE Len(f)
    IN  [i \in 1..n |->
           IF i > at /\ i <= at + Len(body) THEN body[i - at] ELSE f[i]]

\* What a GET can end in: the request or the status fails (`?`, 73-75); the
\* whole range is copied; the body ends early and io::copy returns the
\* error after `n` blocks were written; the body is empty.
GetOutcomes(body) ==
    {[kind |-> "fail"], [kind |-> "full"], [kind |-> "empty"]}
    \cup {[kind |-> "cut", n |-> n] : n \in 0..(Len(body) - 1)}

\* One turn of the loop, huggingface.rs:62-84, onnx.rs:78-101.
DlGet(out) ==
    /\ dlpc = "loop"
    /\ downloaded < total_size
    /\ LET a == downloaded
           b == range_end(downloaded, total_size)
           body == range_body(a, b)
       IN  /\ out \in GetOutcomes(body)
           /\ gets' = Append(gets, <<a, b>>)
           /\ CASE out.kind = "fail" ->
                       /\ dlpc' = "err"
                       /\ UNCHANGED <<lfile, downloaded, cursor>>
                [] out.kind = "cut" ->
                       /\ lfile' = write_at(lfile, cursor, SubSeq(body, 1, out.n))
                       /\ cursor' = cursor + out.n * BlockBytes
                       /\ dlpc' = "err"
                       /\ UNCHANGED downloaded
                [] out.kind = "empty" ->
                       /\ dlpc' = "finish"
                       /\ UNCHANGED <<lfile, downloaded, cursor>>
                [] out.kind = "full" ->
                       /\ lfile' = write_at(lfile, cursor, body)
                       /\ cursor' = cursor + len_bytes(body)
                       /\ downloaded' = downloaded + len_bytes(body)
                       /\ UNCHANGED dlpc
    /\ UNCHANGED <<dkind, remote, total_size>>
    /\ UNCHANGED not_dvars

\* `while downloaded < total_size` is false.
DlLoopEnd ==
    /\ dlpc = "loop"
    /\ ~(downloaded < total_size)
    /\ dlpc' = "finish"
    /\ UNCHANGED <<dkind, remote, lfile, total_size, downloaded, cursor, gets>>
    /\ UNCHANGED not_dvars

\* After the loop: huggingface.rs:86-88 returns Ok(()); onnx.rs:103-109
\* extracts the archive first (`extract_ok`).
DlFinish(extract_ok) ==
    /\ dlpc = "finish"
    /\ dlpc' = IF dkind = "hf" \/ extract_ok THEN "ok" ELSE "err"
    /\ UNCHANGED <<dkind, remote, lfile, total_size, downloaded, cursor, gets>>
    /\ UNCHANGED not_dvars

HeadResponses == {"ok", "request_failed", "status", "no_length"}

AllGetOutcomes == UNION {GetOutcomes([i \in 1..n |-> i]) : n \in 0..MaxBlocks}

InitDl ==
    /\ InitQueue
    /\ InitSupervisor
    /\ InitHandlers
    /\ InitInLoop
    /\ InitDownload
    /\ InitNoCrypto
    /\ InitRuntimes("none")

NextDl ==
    \/ \E resp \in HeadResponses : DlHead(resp)
    \/ \E meta_ok \in BOOLEAN : DlSize(meta_ok)
    \/ \E ok \in BOOLEAN : DlOpen(ok)
    \/ \E out \in AllGetOutcomes : DlGet(out)
    \/ DlLoopEnd
    \/ \E extract_ok \in BOOLEAN : DlFinish(extract_ok)

SpecDl == InitDl /\ [][NextDl]_vars

\* ------------------------------------------------------------- Part VI
\* encrypt and decrypt of crypto/aes.rs.  Byte strings are sequences over
\* Bytes.  AES-256-GCM itself (the aes_gcm crate) is a keystream added to
\* the plaintext and a tag that is a one-to-one code of key, nonce and
\* ciphertext; the 16 tag bytes are one symbol, which is no byte.

Bytes == 0..MaxByte

ByteBase == MaxByte + 1

\* `key: &[u8; 32]`
Keys == {[i \in 1..KEY_LEN |-> v] : v \in Bytes}

\* What `OsRng.fill_bytes(&mut nonce)` can leave in `[0u8; 12]`, aes.rs:22-23.
Nonces == {[i \in 1..NONCE_LEN |-> v] : v \in Bytes}

Plaintexts == UNION {[1..n -> Bytes] : n \in 0..MaxData}

\* A one-to-one code of a sequence of bytes.
RECURSIVE Code(_)
Code(seq) == IF seq = <<>> THEN 1 ELSE seq[1] + ByteBase * Code(Tail(seq))

keystream(key, nonce, i) == (key[1] + nonce[1] + i) % ByteBase

gcm_tag(key, nonce, body) == Code(<<key[1]>> \o nonce \o body)

\* `cipher.encrypt(nonce, data)`, aes.rs:26: ciphertext and tag.
aead_encrypt(key, nonce, data) ==
    LET body == [i \in 1..Len(data) |->
                   (data[i] + keystream(key, nonce, i)) % ByteBase]
    IN  Append(body, gcm_tag(key, nonce, body))

\* `cipher.decrypt(nonce, ciphertext)`, aes.rs:51: an error unless the tag
\* is the one of this key, nonce and ciphertext.
aead_decrypt(key, nonce, ct) ==
    IF Len(ct) = 0 THEN [tag |-> "Err"]
    ELSE LET body == SubSeq(ct, 1, Len(ct) - 1)
             t == ct[Len(ct)]
         IN  IF /\ \A i \in 1..Len(nonce) : nonce[i] \in Bytes
                /\ \A i \in 1..Len(body) : body[i] \in Bytes
                /\ t = gcm_tag(key, nonce, body)
             THEN [tag |-> "Ok",
                   out |-> [i \in 1..Len(body) |->
                              (body[i] + ByteBase - keystream(key, nonce, i))
                                 % ByteBase]]
             ELSE [tag |-> "Err"]

\* encrypt, aes.rs:17-32, with the nonce the generator gave: the nonce is
\* appended to ciphertext and tag.
encrypt(data, key, nonce) ==
    [tag |-> "Ok", out |-> aead_encrypt(key, nonce, data) \o nonce]

\* `data.split_at(data.len() - 12)`, aes.rs:47: the nonce is the second part.
split_nonce_front(data) == SubSeq(data, 1, NONCE_LEN)

split_nonce(data) == SubSeq(data, Len(data) - NONCE_LEN + 1, Len(data))

\* decrypt, aes.rs:42-53.
decrypt(data, key) ==
    IF Len(data) < NONCE_LEN THEN [tag |-> "Err"]
    ELSE aead_decrypt(key, split_nonce(data),
                      SubSeq(data, 1, Len(data) - NONCE_LEN))

\* What a ciphertext can be turned into on its way: one byte replaced, or
\* the end cut off.
Tampered(c) ==
    ({[c EXCEPT ![i] = v] : i \in 1..Len(c), v \in Bytes} \ {c})
    \cup {SubSeq(c, 1, n) : n \in 0..(Len(c) - 1)}

\* All but the state of the crypto round trip.
not_avars ==
    <<qvars, hvars, tvars, current_task, evn, epc, ecall, ekind, last,
      owner_file, mvars, dvars, rvars>>

\* A key and a plaintext.
InitCrypto ==
    /\ apc = "start"
    /\ akey \in Keys
    /\ amsg \in Plaintexts
    /\ asealed = [tag |-> "none"]
    /\ ainput = <<>>
    /\ aopened = [tag |-> "none"]
    /\ aresealed = [tag |-> "none"]

\* encrypt(amsg, akey).
AesEncrypt(nonce) ==
    /\ apc = "start"
    /\ asealed' = encrypt(amsg, akey, nonce)
    /\ apc' = "sealed"
    /\ UNCHANGED <<akey, amsg, ainput, aopened, aresealed>>
    /\ UNCHANGED not_avars

\* The data that can reach the receiver: what encrypt returned, or a
\* tampered version of it.
Deliverable ==
    IF apc = "sealed" THEN {asealed.out} \cup Tampered(asealed.out) ELSE {}

AesDeliver(input) ==
    /\ apc = "sealed"
    /\ ainput' = input
    /\ apc' = "delivered"
    /\ UNCHANGED <<akey, amsg, asealed, aopened, aresealed>>
    /\ UNCHANGED not_avars

\* decrypt(ainput, akey).
AesDecrypt ==
    /\ apc = "delivered"
    /\ aopened' = decrypt(ainput, akey)
    /\ apc' = "opened"
    /\ UNCHANGED <<akey, amsg, asealed, ainput, aresealed>>
    /\ UNCHANGED not_avars

\* encrypt(decrypt(ainput, akey), akey).
AesReencrypt(nonce) ==
    /\ apc = "opened"
    /\ aopened.tag = "Ok"
    /\ aresealed' = encrypt(aopened.out, akey, nonce)
    /\ apc' = "resealed"
    /\ UNCHANGED <<akey, amsg, asealed, ainput, aopened>>
    /\ UNCHANGED not_avars

InitAes ==
    /\ InitQueue
    /\ InitSupervisor
    /\ InitHandlers
    /\ InitInLoop
    /\ InitNoDownload
    /\ InitCrypto
    /\ InitRuntimes("none")

NextAes ==
    \/ \E nonce \in Nonces : AesEncrypt(nonce)
    \/ \E input \in Deliverable : AesDeliver(input)
    \/ AesDecrypt
    \/ \E nonce \in Nonces : AesReencrypt(nonce)

SpecAes == InitAes /\ [][NextAes]_vars

\* ------------------------------------------------------------ Part VII
\* NeuroZKEngine::setup (neuro-zk-runtime/src/lib.rs:50-65): extract_model,
\* then check_or_get_srs.  A file is its name, the task directory the set
\* of its files, an archive the sequence of the file names of its entries;
\* `present`: there is a file at model_archive_path.

\* All but the engine runtimes and the builder.
not_rvars ==
    <<qvars, hvars, tvars, current_task, evn, epc, ecall, ekind, last,
      owner_file, mvars, dvars, avars>>

\* PROOF_INPUT_PATH, MODEL_PATH, PROVING_KEY_PATH, SETTINGS_PATH,
\* lib.rs:21-24, the `targets` of lib.rs:161-166.
Targets == {"input.json", "network.ezkl", "pk.key", "settings.json"}

\* check_files_exists, lib.rs:232-242: false at the first file whose
\* metadata cannot be read.
check_files_exists_any(dir) == \E f \in Targets : f \in dir

check_files_exists(dir) == \A f \in Targets : f \in dir

\* extract_model up to `archive.entries()?`, lib.rs:141-168: the early
\* return, the test for the archive, File::open and the decoder (`open_ok`).
ExtractModel(open_ok) ==
    /\ nzk.pc = "setup"
    /\ nzk' = IF check_files_exists(nzk.dir)
              THEN [nzk EXCEPT !.pc = "srs"]
              ELSE IF ~nzk.present \/ ~open_ok
              THEN [nzk EXCEPT !.pc = "err"]
              ELSE [nzk EXCEPT !.pc = "entries", !.opened = TRUE,
                               !.rest = nzk.archive]
    /\ UNCHANGED <<triton, builder>>
    /\ UNCHANGED not_rvars

\* One turn of `for entry_result in archive.entries()?`, lib.rs:168-186:
\* an entry that cannot be read returns the error ("entry_err"); an entry
\* whose file name is a target is created in the task directory and copied,
\* and a copy that fails returns the error with the file created
\* ("copy_err"); any other entry is passed over.
ExtractEntry(outcome) ==
    /\ nzk.pc = "entries"
    /\ IF nzk.rest = <<>>
       THEN nzk' = [nzk EXCEPT !.pc = "srs"]
       ELSE LET name == Head(nzk.rest)
                hit == name \in Targets /\ outcome # "entry_err"
            IN  nzk' = [nzk EXCEPT
                          !.pc = IF outcome = "entry_err"
                                    \/ (outcome = "copy_err" /\ hit)
                                 THEN "err" ELSE @,
                          !.rest = Tail(@),
                          !.dir = IF hit THEN @ \cup {name} ELSE @,
                          !.written = IF hit THEN @ \cup {name} ELSE @]
    /\ UNCHANGED <<triton, builder>>
    /\ UNCHANGED not_rvars

\* check_or_get_srs, lib.rs:199-221, and the return of setup, lib.rs:61-64:
\* with no kzg.srs in the directory ezkl's GetSrs is run with the path of
\* settings.json (`get_ok`: it succeeds, which takes that file).
check_or_get_srs(get_ok) ==
    /\ nzk.pc = "srs"
    /\ nzk' = IF "kzg.srs" \in nzk.dir
              THEN [nzk EXCEPT !.pc = "ok"]
              ELSE IF get_ok /\ "settings.json" \in nzk.dir
              THEN [nzk EXCEPT !.pc = "ok", !.dir = @ \cup {"kzg.srs"}]
              ELSE [nzk EXCEPT !.pc = "err"]
    /\ UNCHANGED <<triton, builder>>
    /\ UNCHANGED not_rvars

\* setup is called (inference.rs:172) on a task directory holding any of
\* the files of an earlier run, with any archive of up to MaxEntries
\* entries.
InitNzk ==
    /\ InitQueue
    /\ InitSupervisor
    /\ InitHandlers
    /\ InitInLoop
    /\ InitNoDownload
    /\ InitNoCrypto
    /\ InitRuntimes("nzk")
    /\ LET names == Targets \cup {"readme.md"}
           archives == UNION {[1..n -> names] : n \in 0..MaxEntries}
       IN  \E ex \in BOOLEAN :
              nzk \in {[pc |-> "setup", dir |-> d, dir0 |-> d,
                        present |-> ex, archive |-> a, rest |-> <<>>,
                        opened |-> FALSE, written |-> {}] :
                          d \in SUBSET (Targets \cup {"kzg.srs"}),
                          a \in IF ex THEN archives ELSE {<<>>}}

NextNzk ==
    \/ \E open_ok \in BOOLEAN : ExtractModel(open_ok)
    \/ \E outcome \in {"ok", "entry_err", "copy_err"} : ExtractEntry(outcome)
    \/ \E get_ok \in BOOLEAN : check_or_get_srs(get_ok)

SpecNzk == InitNzk /\ [][NextNzk]_vars

\* ----------------------------------------------------------- Part VIII
\* TritonClient::run, open-inference-runtime/src/client.rs:353-754.  A
\* request is what the parse of client.rs:364-377 reads of it: whether the
\* text is a JSON object, and the value of its "command" key (an object)
\* or its first whitespace-separated token (any other text), "absent" when
\* there is none.

not_triton ==
    <<qvars, hvars, tvars, current_task, evn, epc, ecall, ekind, last,
      owner_file, mvars, dvars, avars, nzk, builder>>

CommandNames ==
    {"infer", "infertext", "metadata", "load", "ping", "bogus"}

Requests ==
    [object : BOOLEAN, first : CommandNames \cup {"absent"}]

\* client.rs:364-377: an object without a string "command" runs "infer";
\* a text with no token gives the empty command.
parse_command(request) ==
    IF request.first # "absent" THEN request.first
    ELSE IF request.object THEN "infer" ELSE ""

\* The arm of `match command.as_str()`, client.rs:379-743, by the step of
\* it that fails (`outcome`): "reply" when the arm yields a response_json,
\* "return_ok" and "return_err" when it returns from run.
run_step_always_replies(command, outcome) == "reply"

run_step(command, outcome) ==
    CASE command = "infer" ->
           CASE outcome \in {"load_err", "unload_err"} -> "return_err"
             [] outcome = "inputs_err" -> "return_ok"
             [] OTHER -> "reply"
      [] command = "infertext" ->
           CASE outcome \in {"load_err", "unload_err"} -> "return_err"
             [] outcome \in {"inputs_err", "infer_err"} -> "return_ok"
             [] OTHER -> "reply"
      [] OTHER -> "reply"

Outcomes == {"ok", "load_err", "inputs_err", "infer_err", "unload_err"}

\* Whether the arm answers with an {"error": ..} (or, for a command it
\* does not know, {"message": ..}) rather than a result: "ping" cannot
\* fail, "metadata" and "load" fail at their one call.
command_fails(command, outcome) ==
    CASE command \in {"infer", "infertext"} -> outcome # "ok"
      [] command \in {"metadata", "load"} -> outcome # "ok"
      [] command = "ping" -> FALSE
      [] OTHER -> TRUE

\* One turn of `while let Some(request) = request_stream.next().await`,
\* client.rs:363-751, and the `Ok(())` of client.rs:753 at the end of the
\* stream.
TritonRun(outcome) ==
    /\ triton.pc = "serving"
    /\ IF triton.stream = <<>>
       THEN triton' = [triton EXCEPT !.pc = "ok"]
       ELSE LET request == Head(triton.stream)
                command == parse_command(request)
                step == run_step(command, outcome)
            IN  triton' = [triton EXCEPT
                   !.pc = CASE step = "return_ok" -> "ok"
                            [] step = "return_err" -> "err"
                            [] OTHER -> @,
                   !.stream = Tail(@),
                   !.log = Append(@,
                       [request |-> request,
                        failed |-> command_fails(command, outcome),
                        replies |-> IF step = "reply" THEN 1 ELSE 0])]
    /\ UNCHANGED not_triton

\* run is called by handle_socket (inference.rs:350) with the stream of the
\* text frames of one connection: any MaxRequests of them or fewer.
InitTriton ==
    /\ InitQueue
    /\ InitSupervisor
    /\ InitHandlers
    /\ InitInLoop
    /\ InitNoDownload
    /\ InitNoCrypto
    /\ InitRuntimes("triton")
    /\ triton \in {[pc |-> "serving", stream |-> st, log |-> <<>>] :
                     st \in UNION {[1..n -> Requests] : n \in 0..MaxRequests}}

NextTriton == \E outcome \in Outcomes : TritonRun(outcome)

SpecTriton == InitTriton /\ [][NextTriton]_vars

\* ------------------------------------------------------------- Part IX
\* MinerBuilder, miner/src/builder.rs:16-179.  `builder` holds the fields
\* of the struct, the call that made it (`last`), and where the chain of
\* calls stands: "builder" while there is a MinerBuilder, "panic" after an
\* `expect` or `unwrap` that failed, "built" and "err" after build.

not_builder ==
    <<qvars, hvars, tvars, current_task, evn, epc, ecall, ekind, last,
      owner_file, mvars, dvars, avars, nzk, triton>>

None == <<"None">>

Some(x) == <<"Some", x>>

\* PathBuf::from of a String.
PathBuf_from(str) == <<"PathBuf", str>>

NoKeypair == <<"NoKeypair">>

AccountKeypair(pair) == <<"AccountKeypair", pair>>

Urls == {"ws://a:9944", "ws://b:9944"}

Seeds == {"//Alice", "//Bob", "not a seed"}

PathStrings == {"/var/log", "/etc/miner"}

Gateways == {"http://gw"}

\* MinerData: miner_identity and miner_owner, the owner an SS58 address or
\* not.
MinerDatas ==
    {[miner_identity |-> <<"0xaa", 7>>, miner_owner |-> "5Grw"],
     [miner_identity |-> <<"0xbb", 8>>, miner_owner |-> "no address"]}

\* SecretUri::from_str and SR25519Keypair::from_uri, builder.rs:72-73: the
\* pair a seed derives, <<"Err">> for a text that is no secret URI.
from_uri(seed) ==
    CASE seed = "//Alice" -> <<"Ok", "sr25519(//Alice)">>
      [] seed = "//Bob" -> <<"Ok", "sr25519(//Bob)">>
      [] OTHER -> <<"Err">>

\* AccountId32::from_str, builder.rs:120.
AccountId32_from_str(str) ==
    IF str = "5Grw" THEN <<"Ok", "0xd4">> ELSE <<"Err">>

\* Default for MinerBuilder<NoKeypair>, builder.rs:34-48.
Default ==
    [pc |-> "builder",
     parachain_url |-> None,
     keypair |-> NoKeypair,
     cess_gateway |-> None,
     identity |-> <<"0x00", 0>>,
     creator |-> "0x00",
     log_path |-> PathBuf_from("./"),
     config_path |-> PathBuf_from("./"),
     task_path |-> PathBuf_from("./"),
     task_owner_path |-> PathBuf_from("./"),
     last |-> <<"default">>]

\* The struct literal of keypair, builder.rs:75-85.
keypair_struct_default_paths(b, pair) ==
    [Default EXCEPT !.parachain_url = b.parachain_url,
                    !.keypair = AccountKeypair(pair),
                    !.cess_gateway = b.cess_gateway,
                    !.identity = b.identity,
                    !.creator = b.creator]

keypair_struct(b, pair) ==
    [pc |-> b.pc,
     parachain_url |-> b.parachain_url,
     keypair |-> AccountKeypair(pair),
     cess_gateway |-> b.cess_gateway,
     identity |-> b.identity,
     creator |-> b.creator,
     log_path |-> b.log_path,
     config_path |-> b.config_path,
     task_path |-> b.task_path,
     task_owner_path |-> b.task_owner_path,
     last |-> b.last]

\* builder.rs:58-61.
parachain_url(url) ==
    /\ builder.pc = "builder"
    /\ builder' = [builder EXCEPT !.parachain_url = Some(url),
                                  !.last = <<"parachain_url", url>>]
    /\ UNCHANGED not_builder

\* builder.rs:70-86: both `expect`s panic; the Result is never an Err.
keypair(seed) ==
    /\ builder.pc = "builder"
    /\ LET derived == from_uri(seed)
       IN  builder' = IF derived[1] = "Err"
                      THEN [builder EXCEPT !.pc = "panic",
                                           !.last = <<"keypair", seed>>]
                      ELSE [keypair_struct(builder, derived[2])
                              EXCEPT !.last = <<"keypair", seed>>]
    /\ UNCHANGED not_builder

\* builder.rs:95-109: the argument, or MINER_CESS_GATEWAY of the
\* environment (`env`), whose absence panics.
cess_gateway(arg, env) ==
    /\ builder.pc = "builder"
    /\ LET gateway == IF arg # None THEN arg ELSE env
       IN  builder' = IF gateway = None
                      THEN [builder EXCEPT !.pc = "panic",
                                           !.last = <<"cess_gateway">>]
                      ELSE [builder EXCEPT !.cess_gateway = gateway,
                                           !.last = <<"cess_gateway">>]
    /\ UNCHANGED not_builder

\* builder.rs:118-122: identity is assigned before the `unwrap` of the
\* owner's address.
config(data) ==
    /\ builder.pc = "builder"
    /\ LET owner == AccountId32_from_str(data.miner_owner)
       IN  builder' = IF owner[1] = "Err"
                      THEN [builder EXCEPT !.pc = "panic",
                                           !.identity = data.miner_identity,
                                           !.last = <<"config">>]
                      ELSE [builder EXCEPT !.identity = data.miner_identity,
                                           !.creator = owner[2],
                                           !.last = <<"config">>]
    /\ UNCHANGED not_builder

\* builder.rs:134-146.
paths(log_path, config_path, task_path, task_owner_path) ==
    /\ builder.pc = "builder"
    /\ builder' = [builder EXCEPT
                     !.log_path = PathBuf_from(log_path),
                     !.config_path = PathBuf_from(config_path),
                     !.task_path = PathBuf_from(task_path),
                     !.task_owner_path = PathBuf_from(task_owner_path),
                     !.last = <<"paths", log_path, config_path, task_path,
                                task_owner_path>>]
    /\ UNCHANGED not_builder

\* build of MinerBuilder<AccountKeypair>, builder.rs:154-179: without a
\* URL the Err of builder.rs:177; OnlineClient::from_url connects or not
\* (`connected`); without a gateway the `expect` of builder.rs:164 panics.
build(connected) ==
    /\ builder.pc = "builder"
    /\ builder.keypair # NoKeypair
    /\ builder' = [builder EXCEPT
                     !.pc = IF builder.parachain_url = None \/ ~connected
                            THEN "err"
                            ELSE IF builder.cess_gateway = None
                            THEN "panic" ELSE "built",
                     !.last = <<"build">>]
    /\ UNCHANGED not_builder

InitBuilder ==
    /\ InitQueue
    /\ InitSupervisor
    /\ InitHandlers
    /\ InitInLoop
    /\ InitNoDownload
    /\ InitNoCrypto
    /\ InitRuntimes("builder")
    /\ builder = Default

NextBuilder ==
    \/ \E url \in Urls : parachain_url(url)
    \/ \E seed \in Seeds : keypair(seed)
    \/ \E arg \in {None} \cup {Some(g) : g \in Gateways},
          env \in {None, Some("http://env")} : cess_gateway(arg, env)
    \/ \E data \in MinerDatas : config(data)
    \/ \E l \in PathStrings, c \in PathStrings, t \in PathStrings,
          o \in PathStrings : paths(l, c, t, o)
    \/ \E connected \in BOOLEAN : build(connected)

SpecBuilder == InitBuilder /\ [][NextBuilder]_vars

\* ---------------------------------------------------- properties, Part I

Range(q) == {q[i] : i \in 1..Len(q)}

\* Transactions that exist: queued, or popped and held by a worker.
LiveTxs == Range(queue) \cup ({held[w] : w \in Workers} \ {NoTx})

\* Workers spawned and not yet past `processing_flag.store(false)`.
LiveWorkers == {w \in Workers : wpc[w] \notin {"none", "done"}}

\* Call a pushed its transaction before call b did (calls are numbered in
\* push_back order).
PushedBefore(a, b) == a < b /\ cpc[b] # "start"

\* The executor of call c has been invoked at least once.
Invoked(c) ==
    \/ finished[c] # NotFinished
    \/ \E tx \in LiveTxs : tx.id = c /\ tx.invoked > 0

OkSuccess == [tag |-> "Ok", out |-> "Success"]

\* C1: under any interleaving of enqueue() calls with the worker, at most one
\* worker loop is running, and so at most one transaction is being executed.
C1_SingleExecutor ==
    /\ Cardinality(LiveWorkers) <= 1
    /\ Cardinality({w \in Workers : held[w] # NoTx}) <= 1

\* C1 witness: an enqueue() has pushed and not yet swapped the flag while the
\* worker of an earlier call has just seen the queue empty.
C1_Witness ==
    \E w \in Workers, c \in Calls : wpc[w] = "empty" /\ cpc[c] = "pushed"

\* C2: a transaction's executor is invoked only when every transaction pushed
\* before it has succeeded or exhausted its retries (FIFO), also when the
\* earlier one failed and went back to the front past a waiting later one.
C2_Fifo ==
    \A tx \in LiveTxs :
        tx.invoked > 0 =>
            \A a \in Calls : PushedBefore(a, tx.id) => finished[a] # NotFinished

\* C2 witness: A has failed and is back at the front, B waits behind it.
C2_Witness ==
    /\ Len(queue) = 2
    /\ queue[1].retry_count > 0
    /\ queue[2].invoked = 0
    /\ PushedBefore(queue[1].id, queue[2].id)

\* C3: no transaction is executed more than MAX_RETRIES + 1 = 501 times, and
\* retry_count never exceeds MAX_RETRIES = 500.
C3_RetryCap ==
    \A tx \in LiveTxs :
        /\ tx.retry_count <= MAX_RETRIES
        /\ tx.invoked <= MAX_RETRIES + 1

\* C3 witness: a transaction has been executed 501 times.
C3_Witness == \E tx \in LiveTxs : tx.invoked = MAX_RETRIES + 1

\* C4: every enqueue() call's executor is eventually invoked at least once
\* (under fair scheduling), even when the enqueue races with a worker that
\* has seen the queue empty and is about to clear the flag.
C4_EventuallyInvoked ==
    \A c \in Calls : (cpc[c] = "pushed") ~> Invoked(c)

\* C5: the receiver gets Ok as soon as one attempt returns Ok; it gets Err
\* only from a failure with retry_count already 500; a failure with
\* retry_count < 500 delivers nothing and the transaction goes back to the
\* front of the queue.
C5_Delivery ==
    /\ [](\A c \in Calls :
            /\ chan[c].tag = "Err" => chan[c].retry_count = MAX_RETRIES
            /\ observed[c].tag = "Err" =>
                   observed[c].retry_count = MAX_RETRIES)
    /\ [][\A w \in Workers :
            /\ (wpc[w] = "match" /\ wpc'[w] # "match") =>
                   IF wres[w].result.tag = "Ok"
                   THEN rxAlive[held[w].id] =>
                            chan'[held[w].id] = wres[w].result
                   ELSE IF held[w].retry_count < MAX_RETRIES
                   THEN chan' = chan /\ wpc'[w] = "sleep"
                   ELSE rxAlive[held[w].id] =>
                            chan'[held[w].id].tag = "Err"
            /\ (wpc[w] = "sleep" /\ wpc'[w] # "sleep") =>
                   /\ queue' # <<>>
                   /\ Head(queue').id = held[w].id
                   /\ chan' = chan]_vars

\* C5 witness: a caller has read Err from its receiver.
C5_Witness == \E c \in Calls : observed[c].tag = "Err"

\* C6 as stated: for an executor that fails twice and then returns
\* Ok(Success), the two sleeps are 1 s and 2 s (the n-th is 2^(n-1) s).
C6_Sleeps_1s_2s ==
    \A w \in Workers :
        (wpc[w] = "match" /\ wres[w].result = OkSuccess
            /\ held[w].retry_count = 2) =>
                held[w].sleeps = <<1000, 2000>>

\* C6 amended: for an executor that fails twice and then returns
\* Ok(Success), the receiver gets Ok(Success) and the two sleeps are 2 s and
\* 4 s: the sleep before the n-th retry is min(2^n, 2^10) s.
C6_Sleeps_2s_4s ==
    /\ [](\A w \in Workers :
            /\ (wpc[w] = "match" /\ wres[w].result = OkSuccess
                    /\ held[w].retry_count = 2) =>
                        held[w].sleeps = <<2000, 4000>>
            /\ wpc[w] = "sleep" =>
                   delay[w] = 1000 * Pow2(Min(held[w].retry_count, 10)))
    /\ [][\A w \in Workers :
            (wpc[w] = "match" /\ wpc'[w] # "match"
                /\ wres[w].result = OkSuccess /\ held[w].retry_count = 2
                /\ rxAlive[held[w].id]) =>
                    chan'[held[w].id] = OkSuccess]_vars

\* C6 witness: the third attempt of a transaction has returned Ok(Success).
C6_Witness ==
    \E w \in Workers :
        /\ wpc[w] = "match"
        /\ wres[w].result = OkSuccess
        /\ held[w].retry_count = 2
        /\ held[w].invoked = 3

\* The dispatch-error variant that is acceptable for each chain call.
AcceptableVariant(kind) ==
    CASE kind = "register" -> "WorkerExists"
      [] kind = "confirm_task_reception" -> "TaskReceptionAlreadyConfirmed"
      [] kind = "submit_proof" -> "ProofAlreadySubmitted"
      [] kind = "confirm_miner_vacation" -> "InvalidTaskState"

\* C7: when the chain answers a call with Module(DispatchError) of the call's
\* acceptable variant, the executor returns Ok, the transaction is not
\* retried and the receiver gets Ok exactly once.  (Read in the claim's
\* favour: register's follow-up storage query is taken to succeed.)
C7_AcceptableSuppressed ==
    \A w \in Workers :
        (wpc[w] = "match" /\ held[w].kind \in CallKinds
            /\ wres[w].variant = AcceptableVariant(held[w].kind)
            /\ ~wres[w].lookup_failed) =>
                wres[w].result.tag = "Ok"

\* C8: the queue is idle only when it is empty: whenever no enqueue() is
\* between its push_back and its start_processing, a non-empty queue has a
\* running worker and the processing flag set.
C8_IdleOnlyWhenEmpty ==
    (\A c \in Calls : cpc[c] # "pushed") =>
        (queue # <<>> => processing /\ LiveWorkers # {})

\* C9: a transaction whose receiver was dropped is executed and retried like
\* any other; the failed send is ignored and the worker goes on to the next
\* transaction.
C9_DropBenign ==
    [][\A w \in Workers :
        (wpc[w] = "match" /\ wpc'[w] # "match" /\ ~rxAlive[held[w].id]) =>
            /\ chan' = chan
            /\ IF wres[w].result.tag = "Err"
                      /\ held[w].retry_count < MAX_RETRIES
               THEN /\ wpc'[w] = "sleep"
                    /\ held'[w].retry_count = held[w].retry_count + 1
                    /\ finished' = finished
               ELSE /\ wpc'[w] = "pop"
                    /\ finished'[held[w].id] = wres[w].result.tag]_vars

\* C9 witness: a transaction whose receiver was dropped before delivery has
\* been retried and has finished, and the worker executes the next one.
C9_Witness ==
    \E c \in Calls, w \in Workers :
        /\ ~rxAlive[c]
        /\ chan[c] = NoRes
        /\ finished[c] # NotFinished
        /\ wpc[w] = "exec"
        /\ held[w].id # c

\* --------------------------------------------------- properties, Part II

\* Server tasks that were spawned and have not returned.
LiveServers == {s \in Slots : spc[s] \in {"wait_ready", "bind", "serving"}}

\* C10: whatever chain events arrive, at most one inference server (a live
\* server task with its engine) exists at any time.
C10_AtMostOneServer == Cardinality(LiveServers) <= 1

\* A transaction of chain call `kind` is in the queue q.
Queued(q, kind) == \E i \in 1..Len(q) : q[i].kind = kind

\* C16: the step of process_event that takes a TaskScheduled event for this
\* miner and starts the background download/spawn has set current_task to the
\* task, has written the task-owner file and has enqueued a
\* confirm_task_reception transaction.
C16_ReceptionConfirmed ==
    [][ \A s \in Slots :
          (bpc[s] = "none" /\ bpc'[s] = "download")
             => /\ current_task' = btask'[s]
                /\ owner_file' = btask'[s]
                /\ Queued(queue', "confirm_task_reception")
      ]_vars

\* What the guards of process_event protect: current_task, the transaction
\* queue, the task files and the supervisor.
GuardedState ==
    <<current_task, qvars, epc, ecall, ekind, owner_file, task_dir, bvars,
      status, stpc, spc, shutdown_tx, done, rd, current_server, port>>

\* C17: processing a TaskScheduled event assigned to another identity, or a
\* TaskStopRequested event whose task id is not current_task's (or with no
\* current task), leaves current_task, the transaction queue, the task files
\* and the supervisor unchanged.
C17_GuardsFrame ==
    [][ ( \/ \E t \in TaskIds, readable, owner_ok \in BOOLEAN :
                TaskScheduled(t, FALSE, readable, owner_ok)
          \/ \E t \in TaskIds, removed \in 0..3 :
                /\ current_task = 0 \/ current_task # t
                /\ TaskStopRequested(t, removed) )
        => UNCHANGED GuardedState
      ]_vars

\* With a current task and its directory in place, an event that did not pass
\* its guard was processed: a TaskScheduled for someone else or a
\* TaskStopRequested for another task.
C17_Witness ==
    /\ last.kind \in {"TaskScheduled", "TaskStopRequested"}
    /\ ~last.hit
    /\ current_task # 0
    /\ task_dir
    /\ evn = 2

\* C18: once a TaskStopRequested event for the current task has been processed
\* (process_event has returned from it), CURRENT_SERVER is None, the task
\* directory is removed, confirm_miner_vacation has gone through the queue and
\* current_task is None.
C18_StopCleansUp ==
    (last.kind = "TaskStopRequested" /\ last.hit /\ epc = "idle"
       /\ ekind = "confirm_miner_vacation" /\ cpc[ecall] = "received")
       => /\ current_server = 0
          /\ ~task_dir
          /\ finished[ecall] # NotFinished
          /\ current_task = 0

\* C19: current_task goes from Some(T) to None only after a
\* confirm_miner_vacation transaction has completed with Ok.
C19_ClearedAfterVacation ==
    [][ (current_task # 0 /\ current_task' = 0)
           => /\ ecall # 0
              /\ ekind = "confirm_miner_vacation"
              /\ finished[ecall] = "Ok"
      ]_vars

\* C20: processing an NzkProofRequested event whose task id is not
\* current_task's (or with no current task) generates no proof and enqueues
\* nothing: the queue and process_event's own position are unchanged.
C20_ForeignProofIgnored ==
    [][ ( \E t \in TaskIds, proof \in ProofResults :
             /\ current_task = 0 \/ current_task # t
             /\ NzkProofRequested(t, proof) )
        => /\ UNCHANGED <<qvars, epc, ecall, ekind, current_task>>
           /\ ~last'.hit
      ]_vars

\* With a current task, an NzkProofRequested event for another task was
\* processed.
C20_Witness ==
    /\ last.kind = "NzkProofRequested"
    /\ ~last.hit
    /\ current_task # 0
    /\ evn = 2

C22_NoEngineAfterFailedDownload ==
    [][ \A s \in Slots :
          dres[s] = "Err"
             => /\ spc'[s] = spc[s]
                /\ stpc'[s] = stpc[s]
                /\ status'[s] = status[s]
      ]_vars

\* C23: a download_model_archive that returns an error leaves current_task as
\* it is, and a TaskStopRequested event for that task processed afterwards,
\* with every remove_dir_all of an existing directory succeeding, clears
\* current_task and enqueues confirm_miner_vacation.
C23_StopAfterFailedDownload ==
    [][ /\ \A s \in Slots :
              (dres[s] = "none" /\ dres'[s] = "Err")
                 => current_task' = current_task
        /\ \A t \in TaskIds :
              ( /\ current_task = t
                /\ \E s \in Slots : btask[s] = t /\ dres[s] = "Err"
                /\ TaskStopRequested(t, IF task_dir THEN 3 ELSE 0) )
              => /\ current_task' = 0
                 /\ Queued(queue', "confirm_miner_vacation")
      ]_vars

\* C38: a TaskStopRequested event for the current task in whose handling one
\* of the three removals fails returns the error with current_task as it was
\* and nothing enqueued; with all three removed, current_task is None and
\* confirm_miner_vacation is enqueued.
C38_FailedCleanupKeepsTask ==
    [][ \A t \in TaskIds, removed \in 0..3 :
          (current_task = t /\ TaskStopRequested(t, removed))
             => IF removed < 3
                THEN /\ current_task' = t
                     /\ UNCHANGED qvars
                     /\ epc' = "idle"
                     /\ last'.err
                     /\ owner_file' = owner_file
                ELSE /\ current_task' = 0
                     /\ Queued(queue', "confirm_miner_vacation")
                     /\ ~last'.err
      ]_vars

\* The task directory was removed and a later removal failed: the miner
\* still holds the task and nothing went into the queue.
C38_Witness ==
    /\ last.kind = "TaskStopRequested"
    /\ last.hit
    /\ last.err
    /\ current_task # 0
    /\ ~task_dir
    /\ queue = <<>>
    /\ epc = "idle"

C24_OneEventAtATime ==
    [][ evn' # evn
          => /\ evn' = evn + 1
             /\ epc = "idle"
             /\ ecall # 0 => cpc[ecall] = "received"
      ]_vars

\* The second event is being processed and awaits the transaction it
\* enqueued; the first one had enqueued a transaction and received its result.
C24_Witness ==
    /\ evn = 2
    /\ cpc[1] = "received"
    /\ ecall = 2
    /\ epc = "await"

\* C25: start_miner subscribes only after the register call it enqueued has
\* been answered, and process_event is handed an event only when the
\* identity file is written.
C25_IdentityBeforeEvents ==
    [][ /\ (kpc = "registering" /\ kpc' = "subscribe")
              => cpc[ecall] = "received"
        /\ evn' # evn => identity_file = "valid"
      ]_vars

\* C26: once the register call of start_miner has ended in an error,
\* start_miner does not subscribe and is handed no block.
C26_FailedRegistrationStops ==
    ( /\ ekind = "register"
      /\ cpc[ecall] = "received"
      /\ observed[ecall].tag = "Err" )
       => kpc \notin {"next_block", "events", "process"}

\* C27: when the block stream gives an error or ends, and when the events of
\* a block cannot be fetched, start_miner returns; after that nothing runs:
\* no event is processed, no transaction is executed.
C27_SubscriptionLossReturns ==
    [][ /\ \A item \in {"error", "end"} : NextBlock(item) => kpc' \in Returned
        /\ BlockEvents(FALSE) => kpc' \in Returned
        /\ kpc \notin Returned
      ]_vars

\* start_miner has returned because the stream ended or failed, or the
\* events of a block could not be fetched, after an event was processed and
\* while the queue still held work.
C27_Witness ==
    /\ kpc \in Returned
    /\ evn > 0
    /\ \E c \in Calls : cpc[c] = "received"
    /\ \E s \in Slots : bpc[s] # "none"

\* ---------------------------------------------------- properties, Part V

\* C28: when the length of the local file equals the Content-Length of the
\* HEAD response, the downloader returns Ok from the size test: it has sent
\* no GET and the file is as it was.
C28_SkipWhenComplete ==
    [][ (DlSize(TRUE) /\ len_bytes(lfile) = total_size)
           => /\ dlpc' = "ok"
              /\ gets' = <<>>
              /\ lfile' = lfile
      ]_vars

\* A downloader has returned Ok for a non-empty remote file that was already
\* there, without a GET.
C28_Witness ==
    /\ dlpc = "ok"
    /\ gets = <<>>
    /\ Len(remote) > 0
    /\ lfile = remote
    /\ downloaded = total_size

C39_OkMeansComplete ==
    /\ dlpc = "ok" => len_bytes(lfile) = total_size
    /\ dlpc \in {"open", "loop", "finish", "ok"} => downloaded <= total_size

\* --------------------------------------------------- properties, Part VI

\* C30 as stated: encrypting the plaintext that decrypt returned for a
\* ciphertext gives that ciphertext back.
C30_ReencryptGivesSame ==
    apc = "resealed" => aresealed.out = ainput

\* C30, amended: decrypt of what encrypt returned gives the plaintext back;
\* encrypting that plaintext again gives data that decrypts to the same
\* plaintext (with a nonce of its own, so not the same bytes); decrypt of
\* tampered data, and of data shorter than 12 bytes, returns an error.
C30_RoundTrip ==
    /\ (apc \in {"opened", "resealed"} /\ ainput = asealed.out)
          => aopened = [tag |-> "Ok", out |-> amsg]
    /\ (apc \in {"opened", "resealed"} /\ ainput # asealed.out)
          => aopened.tag = "Err"
    /\ (apc \in {"opened", "resealed"} /\ Len(ainput) < NONCE_LEN)
          => aopened.tag = "Err"
    /\ apc = "resealed" => decrypt(aresealed.out, akey) = aopened

\* A non-empty plaintext was encrypted, decrypted and encrypted again, and
\* the second ciphertext differs from the first.
C30_Witness ==
    /\ apc = "resealed"
    /\ amsg # <<>>
    /\ ainput = asealed.out
    /\ aopened.out = amsg
    /\ aresealed.out # ainput

\* -------------------------------------------------- properties, Part III

\* C11: after shutdown(dir) has returned, for every engine variant, the task
\* directory does not exist and CURRENT_SERVER is None.
C11_ShutdownLeavesNothing ==
    shpc = "returned_ok" => (~task_dir /\ current_server = 0)

\* C12: shutdown sends true on the shutdown watch only after kill_engine has
\* returned, waits for the done one-shot only after that send, and aborts the
\* server task only when the wait runs into the timeout: never once the done
\* signal was sent or its sender was dropped.
C12_ShutdownOrder ==
    [][ /\ (shslot # 0 /\ shutdown_tx[shslot] # "sent"
              /\ shutdown_tx'[shslot] = "sent") => shpc = "signal"
        /\ shpc' = "wait" => shutdown_tx'[shslot] = "sent"
        /\ (~shabort /\ shabort') => (shpc = "wait" /\ done[shslot] = "open")
        /\ \A s \in Slots :
              (spc[s] # "aborted" /\ spc'[s] = "aborted")
                 => (shslot = s /\ ~shabort /\ shabort')
      ]_vars

\* shutdown has aborted a server task that did not end in time.
C12_Witness ==
    /\ shpc = "returned_ok"
    /\ shabort
    /\ spc[shslot] = "aborted"
    /\ shutdown_tx[shslot] = "sent"

\* The moves EngineStatus makes, inference.rs:130, 165, 167-193.
StatusMoves == {<<"none", "Idle">>, <<"Idle", "Initializing">>,
                <<"Initializing", "Ready">>, <<"Initializing", "Failed">>}

\* C13: the status of an engine instance only moves Idle -> Initializing ->
\* (Ready | Failed), and once a read of it gave Ready every later read of it
\* gives Ready.
C13_StatusMonotonic ==
    [][ \A s \in Slots :
          /\ status'[s] # status[s] => <<status[s], status'[s]>> \in StatusMoves
          /\ rd[s] = "Ready" => rd'[s] = "Ready"
      ]_vars

\* The server task read Ready, and a handler read the status after it.
C13_Witness ==
    \E k \in Conns :
        /\ hread[k] = "Ready"
        /\ rd[hslot[k]] = "Ready"
        /\ spc[hslot[k]] \in {"serving", "ended", "aborted"}

\* C14: a handler that read a status other than Ready has sent exactly one
\* status text message, has returned and has not called the engine's run.
C14_NotReadyNoInference ==
    \A k \in Conns :
        hread[k] \in {"Idle", "Initializing", "Failed"}
           => (hmsgs[k] = 1 /\ hpc[k] = "closed" /\ ~hran[k])

\* A handler read Failed.
C14_Witness ==
    \E k \in Conns : hread[k] = "Failed" /\ hmsgs[k] = 1 /\ ~hran[k]

\* C15: the server task goes on to bind its listener without waiting for the
\* engine to become Ready: while the status is Initializing it is not held at
\* the status loop.
C15_BindsWithoutWaiting ==
    \A s \in Slots :
        (spc[s] = "wait_ready" /\ status[s] = "Initializing")
           => ENABLED ServerWaitReady(s)

\* C35: a call of shutdown on a server whose kill_engine is implemented
\* (OpenInference, FlashInference) leaves kill_engine and returns, whatever
\* the connection handlers are doing.
C35_ShutdownReturns ==
    (shpc = "kill" /\ btype[shslot] # "NeuroZk")
       ~> (shpc \in {"returned_ok", "returned_err"})

\* C36: a handler inside the engine's run whose client has closed the
\* connection leaves run and handle_socket, which releases the engine's lock.
C36_CloseReleasesEngine ==
    \A k \in Conns :
        (hpc[k] = "running" /\ hclient[k] = "closed") ~> (hpc[k] = "closed")

\* C37 as stated: after shutdown has returned the error of kill_engine, a
\* server task that was serving goes on serving and keeps the port.
C37_ServerStaysUp ==
    [][ (shpc = "returned_err" /\ spc[shslot] = "serving")
           => (spc'[shslot] = "serving" /\ port' = port)
      ]_vars

\* C37, amended: when kill_engine returns an error, shutdown returns it
\* without having sent true on the shutdown watch and without aborting the
\* server task; the server is dropped with the call, and its dropped
\* shutdown sender lets a serving server task leave axum::serve.
C37_KillFailureDropsServer ==
    shpc = "returned_err"
       => /\ shutdown_tx[shslot] = "dropped"
          /\ ~shabort
          /\ spc[shslot] # "aborted"
          /\ spc[shslot] = "serving" => ENABLED ServerShutdown(shslot)

\* kill_engine of a FlashInference engine failed while its server was
\* serving, and the server task has ended since.
C37_Witness ==
    /\ shpc = "returned_err"
    /\ btype[shslot] = "FlashInference"
    /\ status[shslot] = "Failed"
    /\ spc[shslot] = "ended"
    /\ port = 0

\* -------------------------------------------------- properties, Part VII

\* The archive `a` has no entry whose file name is a target.
NoTargetIn(a) == \A i \in 1..Len(a) : a[i] \notin Targets

C32_NoArtifactFails ==
    ~(nzk.pc = "ok" /\ nzk.opened /\ NoTargetIn(nzk.archive))

\* ------------------------------------------------- properties, Part VIII

\* C33: every message taken from the stream that is not a JSON object,
\* names a command run does not know, or whose command failed, has got
\* exactly one reply, and run has returned only with the stream at its end.
C33_OneReplyAndServing ==
    triton.pc # "none" =>
      /\ \A i \in DOMAIN triton.log :
            (\/ ~triton.log[i].request.object
             \/ triton.log[i].failed) => triton.log[i].replies = 1
      /\ triton.pc # "serving" => triton.stream = <<>>

\* --------------------------------------------------- properties, Part IX

BuilderFields ==
    {"parachain_url", "keypair", "cess_gateway", "identity", "creator",
     "log_path", "config_path", "task_path", "task_owner_path"}

SameExcept(changed) ==
    \A f \in BuilderFields \ changed : builder'[f] = builder[f]

\* C34: a call of parachain_url changes the URL to the one given and no
\* other field; a call of keypair that returns stores the pair its seed
\* derives and carries every other field over, the URL and the four paths
\* among them; a call of paths sets the four paths to the four values
\* given, each to its own, and no other field, whatever the keypair is.
C34_SettersIndependent ==
    [][(builder.pc = "builder" /\ builder'.pc = "builder") =>
         LET call == builder'.last
         IN  /\ call[1] = "parachain_url" =>
                  /\ builder'.parachain_url = Some(call[2])
                  /\ SameExcept({"parachain_url"})
             /\ call[1] = "keypair" =>
                  /\ from_uri(call[2])[1] = "Ok"
                  /\ builder'.keypair = AccountKeypair(from_uri(call[2])[2])
                  /\ SameExcept({"keypair"})
             /\ call[1] = "paths" =>
                  /\ builder'.log_path = PathBuf_from(call[2])
                  /\ builder'.config_path = PathBuf_from(call[3])
                  /\ builder'.task_path = PathBuf_from(call[4])
                  /\ builder'.task_owner_path = PathBuf_from(call[5])
                  /\ SameExcept({"log_path", "config_path", "task_path",
                                 "task_owner_path"})]_vars

\* paths called after keypair, with a URL set before it and four paths that
\* are not all the same.
C34_Witness ==
    /\ builder.pc = "builder"
    /\ builder.last[1] = "paths"
    /\ builder.keypair = AccountKeypair("sr25519(//Bob)")
    /\ builder.parachain_url = Some("ws://b:9944")
    /\ builder.log_path = PathBuf_from("/var/log")
    /\ builder.task_owner_path = PathBuf_from("/etc/miner")

====
